---------------------------- MODULE Spec2Model ----------------------------
(***************************************************************************)
(* A model of the fdnix indexing pipeline: the sharded evaluation driver,  *)
(* the relational writer's package identity and variant merge, the object  *)
(* store uploads of the artifact writers, and the rate-limited embedding   *)
(* client.  Each subsystem has its own specification (SpecShard, SpecSql,  *)
(* SpecStore, SpecEmbed, ...) over its own group of variables; the         *)
(* variables of the other subsystems stay at their idle values.            *)
(***************************************************************************)
EXTENDS Integers, Sequences, FiniteSets, TLC

VARIABLES
    \* ---- sharded evaluation driver (extract_dependencies.py)
    prioritized,     \* the prioritized shard list (indices into ShardTable)
    paramDepth,      \* max_depth handed to process_shard_with_fallback
    paramAliases,    \* allow_aliases handed to process_shard_with_fallback
    shPos,           \* number of loop iterations done
    shBroke,         \* the loop was left through `break`
    successful,      \* successful_shards, in order
    failed,          \* failed_shards, in order
    evalLog,         \* every process_shard call, in order
    shResult,        \* "running" | "combined" | "failed"
    privileged,      \* the process may raise a hard limit (CAP_SYS_RESOURCE)
    rlimit_stack,    \* RLIMIT_STACK of the process, in MiB: soft, hard
    \* ---- relational writer (data_processor.py, sqlite_writer.py)
    rawRecords,      \* the raw records of the JSONL, in order
    sqlPc,           \* "raw" | "processed" | "written" | "minify" | "uploaded" | "failed"
    packages,        \* the processed package dictionaries
    packagesTbl,     \* table packages: package_id -> row
    variationsTbl,   \* table package_variations: rows
    architecturesTbl,\* table architectures: names
    pkgArchTbl,      \* table package_architectures: <<package_id, name>>
    licensesTbl,     \* table licenses: the short names
    pkgLicTbl,       \* table package_licenses: <<package_id, short name>>
    maintainersTbl,  \* table maintainers: the (name, email, github) rows
    pkgMaintTbl,     \* table package_maintainers: <<package_id, maintainer row>>
    packages_fts,    \* table packages_fts: the package_id of each row
    minQueue,        \* minified build: the extracted packages not yet stored
    packages_kv,     \* minified database, table packages_kv: id -> data
    \* ---- object store uploads (node_s3_writer.py, lancedb_writer.py,
    \*      minified_writer.py)
    storeJob,        \* which writer runs: "nodes" | "lance" | "minified"
    oldStore,        \* the objects of the previous artifact (fixed)
    store,           \* the object store: key -> "none" | "old" | "new"
    storePc,         \* the writer's position
    clearFirst,      \* clear_existing / clear_before_upload
    nodeInput,       \* the packages handed to write_nodes: node id, package
    nodeHolder,      \* per node id: the package whose data the object holds
    listing,         \* keys listed by the clear and not yet deleted
    deleteLog,       \* the delete_objects calls made: keys carried, outcome
    batchPos,        \* per upload batch: nodes handled so far
    batchCount,      \* per upload batch: [success, errors] of _write_batch
    batchSeen,       \* batches whose result the main thread has added
    uploadStats,     \* _upload_stats
    \* ---- embedding client (gemini_client.py, embedding_generator.py)
    texts,                    \* the batch: each text's length in characters
    max_concurrent_requests,  \* configuration (GEMINI_MAX_CONCURRENT_REQUESTS)
    requests_per_minute,      \* configuration (GEMINI_REQUESTS_PER_MINUTE)
    tokens_per_minute,        \* configuration (GEMINI_TOKENS_PER_MINUTE)
    clock,           \* time.monotonic(), in ticks
    batchPc,         \* "called" | "gather" | "smoothing" | "returned" | "cancelled"
    wpc,             \* per worker task: the await it is suspended at
    wattempt,        \* per worker: attempt of the retry loop
    wnow,            \* per worker: the local `now` of _respect_rate_limits
    wwake,           \* per worker: when its sleep or its request ends
    _sem,            \* free slots of the semaphore
    semQ,            \* the tasks waiting for the semaphore, in order
    _rate_lock,      \* the task holding the limiter's lock, 0 when free
    lockQ,           \* the tasks waiting for the limiter's lock, in order
    _req_times,      \* request timestamps of the limiter
    _tok_times,      \* <<timestamp, tokens>> of the limiter
    _throttle_streak,
    results,         \* the results list of generate_embeddings_batch
    completion,      \* the workers that ended, in the order they ended
    sentLog,         \* the HTTP requests sent in the last 60 seconds:
                     \* time, tokens, attempt
    reassembled,     \* process_packages_batch has reassembled a batch
    embeddings,      \* the list process_packages_batch reassembled
    \* ---- dependency graph (dependency_graph.py)
    grRaw,              \* the raw records handed to build_from_raw_packages
    grPc,               \* "pass1" | "pass2" | "built" | "processed"
    grPos,              \* records of the running pass handled so far
    vertex_to_node_id,  \* per vertex (1, 2, ...): its node id
    node_id_to_vertex,  \* node id -> vertex
    package_mapping,    \* drvPath -> vertex
    edges,              \* the edges of the graph, in the order added
    _out_adj,           \* per vertex: the targets of its edges
    _in_adj,            \* per vertex: the sources of its edges
    dependency_data,    \* node id -> the dependency lists of its payload
    circular_dependencies, \* the cycles find_circular_dependencies returned
    \* ---- embedding generator run (embedding_generator.py)
    ixPc,               \* "start" | "loaded" | "fetched" | "done" | "failed"
    force_rebuild,      \* the argument of run
    output_dimensions,  \* BEDROCK_OUTPUT_DIMENSIONS
    schema_enforced,    \* does the table refuse a vector of the wrong length
    prevTable,          \* packages table of the previous artifact, by package_id
    lanceTable,         \* packages table of the current artifact, by package_id
    candidates,         \* what fetch_packages_to_embed returned
    requested,          \* package ids sent to the remote model
    \* ---- Stage 2 run (nixpkgs-processor/src/index.py)
    runPc,              \* "read" | "main" | "minified" | "nodes" | "finish" | "exited"
    jsonl,              \* the lines of the Stage 1 JSONL, by kind
    faults,             \* object-store operations that fail, retries included
    enable_node_s3,     \* ENABLE_NODE_S3
    clear_existing,     \* CLEAR_EXISTING_NODES
    raw_packages,       \* what read_raw_jsonl returned
    run_metadata,       \* was a metadata line found
    attempted,          \* object-store operations the run has called
    artifacts,          \* artifacts written to the object store
    node_errors,        \* _upload_stats['errors'] of the node writer
    exit_code,          \* return value of main; -1 while it runs
    \* ---- source acquisition and evaluation (nixpkgs_extractor.py)
    evPc,               \* "clone" | "pause" | "extract" | "done" | "failed"
    impl,               \* which extractor: "evaluator" | "metadata-generator"
    evClock,            \* seconds since the start
    cloneLog,           \* the clone attempts: start, end, outcome
    proc,               \* the nix-eval-jobs process: returncode, stderr, output
    evPackages,         \* the records _extract_with_nix_eval_jobs returned
    \* ---- individual embedding client (bedrock_client.py, BedrockIndividualClient)
    bdPc,               \* "idle" | "loop" | "done"
    bdTexts,            \* estimated tokens of each text of the call
    bdPos,              \* number of texts handled so far
    bdClock,            \* time.time(), in tenths of a second
    max_rpm,            \* BEDROCK_MAX_RPM
    max_tokens_per_minute,\* BEDROCK_MAX_TOKENS_PER_MINUTE
    requests_in_minute, \* times of the tracked requests
    tokens_in_minute,   \* <<time, count>> of the tracked requests
    last_request_time,  \* time of the last tracked request
    bdIssued,           \* invoke_model calls made: time and outcome
    \* ---- batch job polling (bedrock_client.py, BedrockBatchClient)
    wjPc,               \* "idle" | "poll" | "returned" | "raised"
    wjClock,            \* time.time(), in seconds
    start_time,         \* time.time() at the entry of wait_for_job_completion
    wjResult            \* what the wait returned or raised

shardVars == <<prioritized, paramDepth, paramAliases, shPos, shBroke,
               successful, failed, evalLog, shResult, privileged, rlimit_stack>>

sqlVars == <<rawRecords, sqlPc, packages, packagesTbl, variationsTbl,
             architecturesTbl, pkgArchTbl, licensesTbl, pkgLicTbl,
             maintainersTbl, pkgMaintTbl, minQueue, packages_kv, packages_fts>>

storeVars == <<storeJob, oldStore, store, storePc, clearFirst, nodeInput,
               listing, batchPos, batchCount, batchSeen, uploadStats, deleteLog, nodeHolder>>

embedVars == <<texts, max_concurrent_requests, requests_per_minute,
               tokens_per_minute, clock, batchPc, wpc, wattempt, wnow, wwake,
               _sem, semQ, _rate_lock, lockQ, _req_times, _tok_times,
               _throttle_streak, results, completion, sentLog, reassembled,
               embeddings>>

graphVars == <<grRaw, grPc, grPos, vertex_to_node_id, node_id_to_vertex,
               package_mapping, edges, _out_adj, _in_adj, dependency_data,
               circular_dependencies>>

indexVars == <<ixPc, force_rebuild, output_dimensions, schema_enforced,
               prevTable, lanceTable, candidates, requested>>

runVars == <<runPc, jsonl, faults, enable_node_s3, clear_existing,
             raw_packages, run_metadata, attempted, artifacts, node_errors,
             exit_code>>

extractVars == <<evPc, impl, evClock, cloneLog, proc, evPackages>>

bedrockVars == <<bdPc, bdTexts, bdPos, bdClock, max_rpm, max_tokens_per_minute, requests_in_minute, tokens_in_minute, last_request_time, bdIssued>>

waitVars == <<wjPc, wjClock, start_time, wjResult>>

vars == <<shardVars, sqlVars, storeVars, embedVars, graphVars, indexVars, runVars, extractVars, bedrockVars, waitVars>>

\* The variables an action of one subsystem leaves alone.
notShard == <<sqlVars, storeVars, embedVars, graphVars, indexVars, runVars, extractVars, bedrockVars, waitVars>>
notSql == <<shardVars, storeVars, embedVars, graphVars, indexVars, runVars, extractVars, bedrockVars, waitVars>>
notStore == <<shardVars, sqlVars, embedVars, graphVars, indexVars, runVars, extractVars, bedrockVars, waitVars>>
notEmbed == <<shardVars, sqlVars, storeVars, graphVars, indexVars, runVars, extractVars, bedrockVars, waitVars>>
notGraph == <<shardVars, sqlVars, storeVars, embedVars, indexVars, runVars, extractVars, bedrockVars, waitVars>>
notIndex == <<shardVars, sqlVars, storeVars, embedVars, graphVars, runVars, extractVars, bedrockVars, waitVars>>
notRun == <<shardVars, sqlVars, storeVars, embedVars, graphVars, indexVars, extractVars, bedrockVars, waitVars>>
notExtract == <<shardVars, sqlVars, storeVars, embedVars, graphVars, indexVars, runVars, bedrockVars, waitVars>>
notBedrock == <<shardVars, sqlVars, storeVars, embedVars, graphVars, indexVars, runVars, extractVars, waitVars>>
notWait == <<shardVars, sqlVars, storeVars, embedVars, graphVars, indexVars, runVars, extractVars, bedrockVars>>

\* ------------------------------------------------------------------------
\* Generic helpers
\* ------------------------------------------------------------------------

Range(s) == {s[i] : i \in 1..Len(s)}

Min(a, b) == IF a <= b THEN a ELSE b

Max(a, b) == IF a >= b THEN a ELSE b

RECURSIVE SetToSortedSeq(_)
\* The elements of a finite set of integers in increasing order.
SetToSortedSeq(S) ==
    IF S = {} THEN <<>>
    ELSE LET m == CHOOSE x \in S : \A y \in S : x <= y
         IN  <<m>> \o SetToSortedSeq(S \ {m})

\* The elements of a set in some order (the order of a listing, of the rows
\* a SELECT returns).
RECURSIVE SetToSeq(_)
SetToSeq(S) ==
    IF S = {} THEN <<>>
    ELSE LET k == CHOOSE x \in S : TRUE IN <<k>> \o SetToSeq(S \ {k})

\* ------------------------------------------------------------------------
\* Idle values: what a subsystem's variables hold while another one runs
\* ------------------------------------------------------------------------

IdleShard ==
    /\ prioritized = <<>>
    /\ paramDepth = 10
    /\ paramAliases = FALSE
    /\ shPos = 0
    /\ shBroke = FALSE
    /\ successful = <<>>
    /\ failed = <<>>
    /\ evalLog = <<>>
    /\ shResult = "idle"
    /\ privileged = FALSE
    /\ rlimit_stack = [soft |-> 8, hard |-> 8]

IdleSql ==
    /\ rawRecords = <<>>
    /\ sqlPc = "idle"
    /\ packages = <<>>
    /\ packagesTbl = <<>>
    /\ variationsTbl = {}
    /\ architecturesTbl = {}
    /\ pkgArchTbl = {}
    /\ licensesTbl = {}
    /\ pkgLicTbl = {}
    /\ maintainersTbl = {}
    /\ pkgMaintTbl = {}
    /\ packages_fts = {}
    /\ minQueue = <<>>
    /\ packages_kv = <<>>

IdleStore ==
    /\ storeJob = "idle"
    /\ oldStore = {}
    /\ store = <<>>
    /\ storePc = "idle"
    /\ clearFirst = FALSE
    /\ nodeInput = <<>>
    /\ nodeHolder = <<>>
    /\ listing = <<>>
    /\ deleteLog = <<>>
    /\ batchPos = <<>>
    /\ batchCount = <<>>
    /\ batchSeen = {}
    /\ uploadStats = [success |-> 0, errors |-> 0, total |-> 0]

IdleEmbed ==
    /\ texts = <<>>
    /\ max_concurrent_requests = 10
    /\ requests_per_minute = 3000
    /\ tokens_per_minute = 1000000
    /\ clock = 0
    /\ batchPc = "idle"
    /\ wpc = <<>>
    /\ wattempt = <<>>
    /\ wnow = <<>>
    /\ wwake = <<>>
    /\ _sem = 10
    /\ semQ = <<>>
    /\ _rate_lock = 0
    /\ lockQ = <<>>
    /\ _req_times = <<>>
    /\ _tok_times = <<>>
    /\ _throttle_streak = 0
    /\ results = <<>>
    /\ completion = <<>>
    /\ sentLog = <<>>
    /\ reassembled = FALSE
    /\ embeddings = <<>>

IdleGraph ==
    /\ grRaw = <<>>
    /\ grPc = "idle"
    /\ grPos = 0
    /\ vertex_to_node_id = <<>>
    /\ node_id_to_vertex = <<>>
    /\ package_mapping = <<>>
    /\ edges = <<>>
    /\ _out_adj = <<>>
    /\ _in_adj = <<>>
    /\ dependency_data = <<>>
    /\ circular_dependencies = <<>>

IdleIndex ==
    /\ ixPc = "idle"
    /\ force_rebuild = FALSE
    /\ output_dimensions = 256
    /\ schema_enforced = FALSE
    /\ prevTable = <<>>
    /\ lanceTable = <<>>
    /\ candidates = <<>>
    /\ requested = {}

IdleRun ==
    /\ runPc = "idle"
    /\ jsonl = <<>>
    /\ faults = {}
    /\ enable_node_s3 = TRUE
    /\ clear_existing = TRUE
    /\ raw_packages = <<>>
    /\ run_metadata = FALSE
    /\ attempted = {}
    /\ artifacts = {}
    /\ node_errors = 0
    /\ exit_code = -1

IdleExtract ==
    /\ evPc = "idle"
    /\ impl = "evaluator"
    /\ evClock = 0
    /\ cloneLog = <<>>
    /\ proc = [returncode |-> 0, stderr |-> "none", output |-> <<>>]
    /\ evPackages = <<>>

IdleBedrock ==
    /\ bdPc = "idle"
    /\ bdTexts = <<>>
    /\ bdPos = 0
    /\ bdClock = 0
    /\ max_rpm = 200
    /\ max_tokens_per_minute = 30000
    /\ requests_in_minute = <<>>
    /\ tokens_in_minute = <<>>
    /\ last_request_time = 0
    /\ bdIssued = <<>>

IdleWait ==
    /\ wjPc = "idle"
    /\ wjClock = 0
    /\ start_time = 0
    /\ wjResult = "none"

\* ------------------------------------------------------------------------
\* Sharded evaluation driver
\* ------------------------------------------------------------------------

\* The shard names the discovery step may return.  The table is written in
\* lexicographic order of the names, so the order of the indices is the order
\* Python's sorted() gives the names; `prefix` is what str.startswith sees.
ShardTable ==
    << [name |-> "byname_group_ab", prefix |-> "byname_group_"],
       [name |-> "byname_group_cd", prefix |-> "byname_group_"],
       [name |-> "byname_large_co", prefix |-> "byname_large_"],
       [name |-> "byname_large_go", prefix |-> "byname_large_"],
       [name |-> "byname_large_li", prefix |-> "byname_large_"],
       [name |-> "byname_large_zz", prefix |-> "byname_large_"],
       [name |-> "toplevel_misc",   prefix |-> "other"] >>

ShardIds == 1..Len(ShardTable)

ShardName(s) == ShardTable[s].name

\* The largest number of shards one discovery returns in the model.
MaxShards == 4

is_problematic_shard(s) ==
    ShardName(s) \in {"byname_large_li", "byname_large_co", "byname_large_ca"}

is_memory_intensive_shard(s) ==
    ShardName(s) \in {"byname_large_li", "byname_large_co", "byname_large_ca",
                      "byname_large_go", "byname_large_ma", "byname_large_op",
                      "byname_large_re"}

\* The three priority classes of prioritize_shards (and of the log labels of
\* run_sharded_extraction): grouped, large, large-problematic.
ShardClass(s) ==
    IF ShardTable[s].prefix = "byname_group_" THEN "grouped"
    ELSE IF ShardTable[s].prefix = "byname_large_"
         THEN IF is_problematic_shard(s) THEN "large-problematic" ELSE "large"
         ELSE "grouped"

prioritize_shards(S) ==
    SetToSortedSeq({s \in S : ShardClass(s) = "grouped"})
      \o SetToSortedSeq({s \in S : ShardClass(s) = "large"})
      \o SetToSortedSeq({s \in S : ShardClass(s) = "large-problematic"})

\* The limit of a resource that has none.
RLIM_INFINITY == 1048576

\* The stack limit a process starts with.
DefaultStack == [soft |-> 8, hard |-> RLIM_INFINITY]

\* resource.setrlimit(RLIMIT_STACK, (soft, hard)): raising the hard limit
\* is refused to a process without the privilege, and leaves the limit as
\* it was.
setrlimit(cur, new) ==
    IF new.soft > new.hard \/ (new.hard > cur.hard /\ ~privileged) THEN cur ELSE new

\* setup_resource_limits(verbose, memory_intensive): the stack limit after
\* the call; the exception of a refused setrlimit is caught and logged.
setup_resource_limits(cur, memory_intensive) ==
    LET stack_size == IF memory_intensive THEN 32 ELSE 16
    IN  setrlimit(cur, [soft |-> stack_size, hard |-> stack_size])

\* process_shard: the parameters the evaluator is really run with.
ShardTimeout(s) ==
    IF ShardName(s) = "byname_large_li" THEN 900
    ELSE IF is_memory_intensive_shard(s) THEN 600
    ELSE IF ShardTable[s].prefix = "byname_group_" THEN 180
    ELSE 300

process_shard(s, max_depth, allow_aliases, strategy, ok) ==
    [shard    |-> s,
     strategy |-> strategy,
     ok       |-> ok,
     depth    |-> IF is_problematic_shard(s) THEN Min(max_depth, 5) ELSE max_depth,
     aliases  |-> IF is_problematic_shard(s) THEN FALSE ELSE allow_aliases,
     timeout  |-> ShardTimeout(s),
     stack    |-> setup_resource_limits(rlimit_stack, is_memory_intensive_shard(s)).soft]

\* A fallback tried for every shard, whatever its class.
FallbackEligible_Always(s) == TRUE

\* Strategy 2 of process_shard_with_fallback is tried for these shards.
FallbackEligible(s) == is_problematic_shard(s) \/ is_memory_intensive_shard(s)

\* process_shard_with_fallback(s) given the outcome of the evaluator on the
\* normal run (ok1) and on the fallback run (ok2): the calls made, in order,
\* and whether a result came back.
process_shard_with_fallback(s, ok1, ok2) ==
    LET first  == process_shard(s, paramDepth, paramAliases, 1, ok1)
        second == process_shard(s, 3, FALSE, 2, ok2)
    IN  IF ok1 THEN [calls |-> <<first>>, ok |-> TRUE]
        ELSE IF FallbackEligible(s)
             THEN [calls |-> <<first, second>>, ok |-> ok2]
             ELSE [calls |-> <<first>>, ok |-> FALSE]

\* The early-stop test of the shard loop.
TooManyFailures(nFailed, nShards) == nFailed > nShards \div 2

StartShard ==
    /\ \E S \in SUBSET ShardIds :
          /\ S # {}
          /\ Cardinality(S) <= MaxShards
          /\ prioritized = prioritize_shards(S)
    /\ paramDepth \in {10, 4}
    /\ paramAliases \in BOOLEAN
    /\ shPos = 0
    /\ shBroke = FALSE
    /\ successful = <<>>
    /\ failed = <<>>
    /\ evalLog = <<>>
    /\ shResult = "running"
    /\ privileged \in BOOLEAN
    /\ rlimit_stack = setup_resource_limits(DefaultStack, FALSE)

InitShard == StartShard /\ IdleSql /\ IdleStore /\ IdleEmbed /\ IdleGraph /\ IdleIndex /\ IdleRun /\ IdleExtract /\ IdleBedrock /\ IdleWait

\* One iteration of the shard loop of run_sharded_extraction /
\* extract_dependencies_data.
ProcessNextShard ==
    /\ shResult = "running"
    /\ ~shBroke
    /\ shPos < Len(prioritized)
    /\ \E ok1, ok2 \in BOOLEAN :
          LET s == prioritized[shPos + 1]
              r == process_shard_with_fallback(s, ok1, ok2)
          IN  /\ evalLog' = evalLog \o r.calls
              /\ shPos' = shPos + 1
              /\ rlimit_stack' = setup_resource_limits(rlimit_stack, is_memory_intensive_shard(s))
              /\ IF r.ok
                 THEN /\ successful' = Append(successful, s)
                      /\ UNCHANGED <<failed, shBroke>>
                 ELSE /\ failed' = Append(failed, s)
                      /\ shBroke' = TooManyFailures(Len(failed) + 1, Len(prioritized))
                      /\ UNCHANGED successful
    /\ UNCHANGED <<prioritized, paramDepth, paramAliases, shResult, privileged>>
    /\ UNCHANGED notShard

\* What follows the loop: fail when nothing succeeded, otherwise combine the
\* successful shards and return them.
FinishShards ==
    /\ shResult = "running"
    /\ shBroke \/ shPos = Len(prioritized)
    /\ shResult' = IF successful = <<>> THEN "failed" ELSE "combined"
    /\ UNCHANGED <<prioritized, paramDepth, paramAliases, shPos, shBroke,
                   successful, failed, evalLog, privileged, rlimit_stack>>
    /\ UNCHANGED notShard

NextShard == ProcessNextShard \/ FinishShards

SpecShard == InitShard /\ [][NextShard]_vars

\* The shards of `failed`, as a set.
FailedShards == Range(failed)

\* C3: in sharded mode, when more than 50% of the discovered shards have
\* failed the run ends as a failure: it never returns a combined result built
\* from the shards that succeeded.
C3_AbortOnMajorityFailure ==
    (shResult \in {"combined", "failed"} /\ 2 * Len(failed) > Len(prioritized))
        => shResult = "failed"

\* The calls of the evaluator made for shard s, in order.
CallsOf(s) == LET mine(c) == c.shard = s IN SelectSeq(evalLog, mine)

LargeClass(s) == ShardClass(s) \in {"large", "large-problematic"}

\* The rank of a shard's priority class.
ClassRank(s) ==
    IF ShardClass(s) = "grouped" THEN 1
    ELSE IF ShardClass(s) = "large" THEN 2 ELSE 3

MaxRecords == 2

\* A path segment is a string; DotParts gives the pieces str.split(".") cuts
\* it into once the segments are joined with ".".
DotParts(seg) ==
    IF seg = "python3.12" THEN <<"python3", "12">> ELSE <<seg>>

\* The pieces of the model's universe in which one of the substrings
\* "linux", "darwin", "windows" occurs (the test `sys in parts[-1]`).
ContainsSys(part) ==
    part \in {"x86_64-linux", "aarch64-darwin", "aarch64-linux", "util-linux",
              "linux-firmware"}

RECURSIVE JoinSplit(_)
\* ".".join(attrPath).split("."): attributePath as its dot-separated pieces.
JoinSplit(attrPath) ==
    IF attrPath = <<>> THEN <<>>
    ELSE DotParts(Head(attrPath)) \o JoinSplit(Tail(attrPath))

\* any(key) of a maintainer's (name, email, github).
AnyKey(m) == m.name # "" \/ m.email # "" \/ m.github # ""

\* meta.license as DataProcessor._extract_license_info tags it: nothing, a
\* string ("string", kept under the key value), one object ("object") or a
\* list ("array"), with the short names it holds.
NoLicense == [type |-> "none", names |-> {}]

\* The short names SQLiteWriter reads from a processed license: those of an
\* array, or the shortName of the dictionary itself, which a license that
\* was a string does not have.
LicenseShortNames(license_info) ==
    IF license_info.type \in {"array", "object"} THEN license_info.names ELSE {}

AttrPaths ==
    { <<>>,
      <<"hello", "x86_64-linux">>,
      <<"hello", "aarch64-darwin">>,
      <<"legacyPackages", "x86_64-linux", "hello">>,
      <<"legacyPackages", "aarch64-darwin", "hello">>,
      <<"hello">> }

PlatformSets == { {"x86_64-linux", "aarch64-linux"}, {"aarch64-darwin"} }

\* The raw records one line of the JSONL may hold.  `name` is the name field
\* cut at its dashes.
RawUniverse ==
    [ attrPath  : AttrPaths,
      name      : {<<"hello", "2.12">>},
      drvPath   : {"drv"},
      platforms : PlatformSets,
      broken    : BOOLEAN,
      unfree    : BOOLEAN,
      available : BOOLEAN,
      insecure    : {FALSE},
      unsupported : {FALSE},
      license     : {NoLicense},
      maintainers : {{}} ]

\* A part of a name that starts a version: its first character is a digit or
\* "v".
StartsVersion(part) == part \in {"2.12", "v3", "9.0"}

\* DataProcessor._parse_name_version on the dash-separated parts of a name;
\* package name and version are kept as sequences of parts.
_parse_name_version(parts) ==
    IF parts = <<>> THEN [packageName |-> <<"unknown">>, version |-> <<"unknown">>]
    ELSE IF Len(parts) < 2 THEN [packageName |-> parts, version |-> <<"unknown">>]
    ELSE IF \E i \in 1..Len(parts) : StartsVersion(parts[i])
         THEN LET i == CHOOSE k \in 1..Len(parts) :
                          /\ StartsVersion(parts[k])
                          /\ \A j \in 1..(k - 1) : ~StartsVersion(parts[j])
              IN  [packageName |-> IF i = 1 THEN parts ELSE SubSeq(parts, 1, i - 1),
                   version     |-> SubSeq(parts, i, Len(parts))]
         ELSE [packageName |-> SubSeq(parts, 1, Len(parts) - 1),
               version     |-> <<parts[Len(parts)]>>]

\* DataProcessor._extract_maintainers: the entries that have a name, an
\* email or a github handle.
DP_extract_maintainers(maintainers) == {m \in maintainers : AnyKey(m)}

\* One entry of DataProcessor._process_package_data.
ProcessOne(raw) ==
    LET nv == _parse_name_version(raw.name)
    IN  [packageName   |-> nv.packageName,
         version       |-> nv.version,
         attributePath |-> JoinSplit(raw.attrPath),
         drvPath       |-> raw.drvPath,
         platforms     |-> raw.platforms,
         broken        |-> raw.broken,
         unfree        |-> raw.unfree,
         available     |-> raw.available,
         insecure      |-> raw.insecure,
         unsupported   |-> raw.unsupported,
         license       |-> raw.license,
         maintainers   |-> DP_extract_maintainers(raw.maintainers)]

RECURSIVE _process_package_data(_)
_process_package_data(raws) ==
    IF raws = <<>> THEN <<>>
    ELSE LET p == ProcessOne(Head(raws))
         IN  (IF p.packageName = <<>> \/ p.packageName = <<"unknown">>
              THEN <<>> ELSE <<p>>) \o _process_package_data(Tail(raws))

\* SQLiteWriter._package_id.  A package id is kept as the sequence of its
\* dot-separated pieces; the fallback "<name>@<version>" as the parts of the
\* name, "@", and the parts of the version.
_package_id(p) ==
    LET parts == p.attributePath
    IN  IF parts # <<>>
        THEN IF Len(parts) >= 2 /\ ContainsSys(parts[Len(parts)])
             THEN SubSeq(parts, 1, Len(parts) - 1)
             ELSE parts
        ELSE IF p.packageName # <<>> \/ p.version # <<>>
             THEN p.packageName \o <<"@">> \o p.version
             ELSE <<"unknown">>

\* LanceDBWriter._package_id: the attribute path as it is.
Lance_package_id(p) ==
    IF p.attributePath # <<>> THEN p.attributePath
    ELSE IF p.packageName # <<>> \/ p.version # <<>>
         THEN p.packageName \o <<"@">> \o p.version
         ELSE <<"unknown">>

\* SQLiteWriter._extract_system_from_attribute_path ("" when there is none).
_extract_system_from_attribute_path(parts) ==
    IF parts # <<>> /\ Len(parts) >= 2 THEN parts[Len(parts)] ELSE ""

\* A merge that keeps the first variant as it is.
_merge_package_variants_FirstOnly(variants) == variants[1]

\* SQLiteWriter._merge_package_variants.
_merge_package_variants(variants) ==
    IF Len(variants) = 1 THEN variants[1]
    ELSE [variants[1] EXCEPT
            !.platforms   = UNION {variants[i].platforms : i \in 1..Len(variants)},
            !.broken      = \E i \in 1..Len(variants) : variants[i].broken,
            !.unfree      = \E i \in 1..Len(variants) : variants[i].unfree,
            !.insecure    = \E i \in 1..Len(variants) : variants[i].insecure,
            !.unsupported = \E i \in 1..Len(variants) : variants[i].unsupported,
            !.available   = \A i \in 1..Len(variants) : variants[i].available,
            !.maintainers = {m \in UNION {variants[i].maintainers : i \in 1..Len(variants)} :
                                AnyKey(m)},
            !.license     = IF \E i \in 1..Len(variants) : variants[i].license # NoLicense
                            THEN variants[CHOOSE i \in 1..Len(variants) :
                                     /\ variants[i].license # NoLicense
                                     /\ \A j \in 1..(i - 1) : variants[j].license = NoLicense].license
                            ELSE variants[1].license]

\* The group of a package id: the packages with that id, in input order.
GroupOf(pkgs, id) ==
    LET same(p) == _package_id(p) = id IN SelectSeq(pkgs, same)

\* SQLiteWriter._deduplicate_packages: one package per group, the groups in
\* the order in which their first member appears.
_deduplicate_packages(pkgs) ==
    LET firsts == {i \in 1..Len(pkgs) :
                      \A j \in 1..(i - 1) : _package_id(pkgs[j]) # _package_id(pkgs[i])}
        order  == SetToSortedSeq(firsts)
    IN  [k \in 1..Len(order) |->
            _merge_package_variants(GroupOf(pkgs, _package_id(pkgs[order[k]])))]

\* SQLiteWriter._extract_architectures: the lookup rows, from all packages
\* before deduplication.
_extract_architectures(pkgs) ==
    UNION {pkgs[i].platforms : i \in 1..Len(pkgs)}

\* The rows _insert_packages_and_relationships writes for the deduplicated
\* packages.  INSERT OR REPLACE keeps the last row of a key.
PackageRows(dedup) ==
    LET ids == {_package_id(dedup[i]) : i \in 1..Len(dedup)}
        last(id) == CHOOSE i \in 1..Len(dedup) :
                       /\ _package_id(dedup[i]) = id
                       /\ \A j \in (i + 1)..Len(dedup) : _package_id(dedup[j]) # id
    IN  [id \in ids |-> dedup[last(id)]]

VariationRows(dedup) ==
    LET sys(i) == _extract_system_from_attribute_path(dedup[i].attributePath)
        has == {i \in 1..Len(dedup) : sys(i) # ""}
        lastOfKey(i) == \A j \in has :
                           (j > i) => <<_package_id(dedup[j]), sys(j)>>
                                        # <<_package_id(dedup[i]), sys(i)>>
    IN  { [package_id |-> _package_id(dedup[i]),
           system     |-> sys(i),
           drv_path   |-> dedup[i].drvPath] : i \in {k \in has : lastOfKey(k)} }

ArchitectureRows(dedup, archs) ==
    { <<_package_id(dedup[i]), a>> :
         i \in 1..Len(dedup), a \in archs } \cap
    UNION { {<<_package_id(dedup[i]), a>> : a \in dedup[i].platforms} :
              i \in 1..Len(dedup) }

\* SQLiteWriter._extract_licenses and _extract_maintainers: the lookup rows,
\* from all packages before deduplication.
_extract_licenses(pkgs) ==
    UNION {LicenseShortNames(pkgs[i].license) : i \in 1..Len(pkgs)}

_extract_maintainers(pkgs) ==
    {m \in UNION {pkgs[i].maintainers : i \in 1..Len(pkgs)} : AnyKey(m)}

\* INSERT OR IGNORE INTO package_licenses ... WHERE short_name = ?
LicenseRows(dedup, licenses) ==
    UNION { {<<_package_id(dedup[i]), l>> :
                l \in LicenseShortNames(dedup[i].license) \cap licenses} :
              i \in 1..Len(dedup) }

\* The WHERE clause of the package_maintainers insert, for the key of one
\* maintainer of a package and one row of maintainers.
MaintainerMatch(key, row) ==
    /\ row.name = key.name \/ row.email = key.email \/ row.github = key.github
    /\ row.name # "" \/ row.email # "" \/ row.github # ""

\* INSERT OR IGNORE INTO package_maintainers ... SELECT ?, maintainer_id
\* FROM maintainers WHERE ..., for every maintainer of every package.
MaintainerRows(dedup, rows) ==
    UNION { {<<_package_id(dedup[i]), row>> :
                row \in {r \in rows : \E key \in dedup[i].maintainers :
                                          AnyKey(key) /\ MaintainerMatch(key, r)}} :
              i \in 1..Len(dedup) }

StartSql ==
    /\ rawRecords \in UNION {[1..n -> RawUniverse] : n \in 0..MaxRecords}
    /\ sqlPc = "raw"
    /\ packages = <<>>
    /\ packagesTbl = <<>>
    /\ variationsTbl = {}
    /\ architecturesTbl = {}
    /\ pkgArchTbl = {}
    /\ licensesTbl = {}
    /\ pkgLicTbl = {}
    /\ maintainersTbl = {}
    /\ pkgMaintTbl = {}
    /\ packages_fts = {}
    /\ minQueue = <<>>
    /\ packages_kv = <<>>

InitSql == StartSql /\ IdleShard /\ IdleStore /\ IdleEmbed /\ IdleGraph /\ IdleIndex /\ IdleRun /\ IdleExtract /\ IdleBedrock /\ IdleWait

\* DataProcessor.process_raw_packages.
ProcessRawPackages ==
    /\ sqlPc = "raw"
    /\ packages' = _process_package_data(rawRecords)
    /\ sqlPc' = "processed"
    /\ UNCHANGED <<rawRecords, packagesTbl, variationsTbl, architecturesTbl, pkgArchTbl, licensesTbl, pkgLicTbl, maintainersTbl, pkgMaintTbl, packages_fts, minQueue, packages_kv>>
    /\ UNCHANGED notSql

\* SQLiteWriter._create_fts_table: one row per row of packages; when a
\* statement raises (no fts5 module, a failing INSERT) the error is logged
\* and the table stays without rows.
_create_fts_table(tbl, ok) == IF ok THEN DOMAIN tbl ELSE {}

\* SQLiteWriter.write_artifact: _convert_packages_to_sqlite_format (lookup
\* rows, variant merge, package rows and their relationships), then the
\* FTS table, the commit and the return.
ConvertPackagesToSqlite ==
    /\ sqlPc = "processed"
    /\ LET dedup == _deduplicate_packages(packages)
           archs == _extract_architectures(packages)
       IN  /\ architecturesTbl' = archs
           /\ packagesTbl' = PackageRows(dedup)
           /\ variationsTbl' = VariationRows(dedup)
           /\ pkgArchTbl' = ArchitectureRows(dedup, archs)
           /\ licensesTbl' = _extract_licenses(packages)
           /\ pkgLicTbl' = LicenseRows(dedup, _extract_licenses(packages))
           /\ maintainersTbl' = _extract_maintainers(packages)
           /\ pkgMaintTbl' = MaintainerRows(dedup, _extract_maintainers(packages))
           /\ \E ok \in BOOLEAN : packages_fts' = _create_fts_table(PackageRows(dedup), ok)
    /\ sqlPc' = "written"
    /\ UNCHANGED <<rawRecords, packages, minQueue, packages_kv>>
    /\ UNCHANGED notSql

\* dict.get(key) on a row dictionary: empty for a key the dictionary lacks.
Get(p, key) == IF key \in DOMAIN p THEN p[key] ELSE <<>>

\* The dictionary built for one row of maintainers: only the fields that
\* have a value.
MaintainerDict(row) ==
    [f \in {g \in {"name", "email", "github"} : row[g] # ""} |-> row[f]]

\* A reading of the maintainers that keeps the named ones only.
ExtractMaintainers_NamedOnly(package_id) ==
    {MaintainerDict(pm[2]) : pm \in {x \in pkgMaintTbl : x[1] = package_id /\ x[2].name # ""}}

\* The maintainers joined to a package through package_maintainers; a
\* dictionary without any field is left out.
ExtractMaintainers(package_id) ==
    {MaintainerDict(pm[2]) : pm \in {x \in pkgMaintTbl : x[1] = package_id}} \ {<<>>}

\* The licenses joined to a package through package_licenses: one object,
\* an array of several, or none.
ExtractLicense(package_id) ==
    LET licenses == {pl[2] : pl \in {x \in pkgLicTbl : x[1] = package_id /\ x[2] \in licensesTbl}}
    IN  [type     |-> IF Cardinality(licenses) = 1 THEN "object"
                      ELSE IF Cardinality(licenses) > 1 THEN "array" ELSE "none",
         licenses |-> licenses]

\* The platforms joined to a package through package_architectures.
ExtractPlatforms(package_id) ==
    {pa[2] : pa \in {x \in pkgArchTbl : x[1] = package_id /\ x[2] \in architecturesTbl}}

\* SQLiteWriter._extract_packages_from_main_db: one dictionary per row of
\* packages, keyed by the column names, with the licenses, maintainers and
\* platforms of the junction tables.
_extract_packages_from_main_db(tbl) ==
    LET ids == SetToSeq(DOMAIN tbl)
    IN  [k \in 1..Len(ids) |->
            [package_id     |-> ids[k],
             package_name   |-> tbl[ids[k]].packageName,
             version        |-> tbl[ids[k]].version,
             attribute_path |-> tbl[ids[k]].attributePath,
             license        |-> ExtractLicense(ids[k]),
             maintainers    |-> ExtractMaintainers(ids[k]),
             platforms      |-> ExtractPlatforms(ids[k])]]

\* MinifiedWriter._package_id: reads attributePath, packageName, version.
Minified_package_id(p) ==
    LET parts == Get(p, "attributePath")
        name  == Get(p, "packageName")
        ver   == Get(p, "version")
    IN  IF parts # <<>>
        THEN IF Len(parts) >= 2 /\ ContainsSys(parts[Len(parts)])
             THEN SubSeq(parts, 1, Len(parts) - 1)
             ELSE parts
        ELSE IF name # <<>> \/ ver # <<>>
             THEN name \o <<"@">> \o ver
             ELSE <<"unknown">>

\* MinifiedWriter._create_package_json: the object that is serialized.
_create_package_json(p) ==
    [package_id     |-> Minified_package_id(p),
     package_name   |-> Get(p, "packageName"),
     version        |-> Get(p, "version"),
     attribute_path |-> Get(p, "attributePath")]

\* compressor.compress(json_bytes) and decompressor.decompress(data); a
\* frame that does not decode to its input is one that is not intact.
compress(json_bytes) == [zstd |-> json_bytes, intact |-> TRUE]

\* A decoder that hands back the input of the frame whatever its state.
decompress_Unchecked(data) == data.zstd

decompress(data) == IF data.intact THEN data.zstd ELSE [data.zstd EXCEPT !.version = <<"?">>]

\* SQLiteWriter.create_minified_db_from_main up to the build: the packages
\* are read from the main database and the dictionary is trained, which
\* zstd may refuse for the samples it is given.
CreateMinifiedDbFromMain ==
    /\ sqlPc = "written"
    /\ \E trained \in BOOLEAN :
          IF trained
          THEN /\ sqlPc' = "minify"
               /\ minQueue' = _extract_packages_from_main_db(packagesTbl)
          ELSE /\ sqlPc' = "failed"
               /\ UNCHANGED minQueue
    /\ UNCHANGED <<rawRecords, packages, packagesTbl, variationsTbl, architecturesTbl, pkgArchTbl, licensesTbl, pkgLicTbl, maintainersTbl, pkgMaintTbl, packages_fts, packages_kv>>
    /\ UNCHANGED notSql

\* MinifiedWriter._build_compressed_database, one turn of the loop:
\* compress, decompress and compare, INSERT OR REPLACE.  A mismatch raises
\* out of the build.
BuildCompressedOne ==
    /\ sqlPc = "minify"
    /\ minQueue # <<>>
    /\ \E intact \in BOOLEAN :
          LET pkg             == Head(minQueue)
              package_id      == Minified_package_id(pkg)
              json_bytes      == _create_package_json(pkg)
              compressed_data == [compress(json_bytes) EXCEPT !.intact = intact]
          IN  IF decompress(compressed_data) = json_bytes
              THEN /\ packages_kv' = (package_id :> compressed_data) @@ packages_kv
                   /\ minQueue' = Tail(minQueue)
                   /\ UNCHANGED sqlPc
              ELSE /\ sqlPc' = "failed"
                   /\ UNCHANGED <<minQueue, packages_kv>>
    /\ UNCHANGED <<rawRecords, packages, packagesTbl, variationsTbl, architecturesTbl, pkgArchTbl, licensesTbl, pkgLicTbl, maintainersTbl, pkgMaintTbl, packages_fts>>
    /\ UNCHANGED notSql

\* The loop is over: commit, and write_artifact uploads the database and
\* the dictionary.
MinifiedFinish ==
    /\ sqlPc = "minify"
    /\ minQueue = <<>>
    /\ sqlPc' = "uploaded"
    /\ UNCHANGED <<rawRecords, packages, packagesTbl, variationsTbl, architecturesTbl, pkgArchTbl, licensesTbl, pkgLicTbl, maintainersTbl, pkgMaintTbl, packages_fts, minQueue, packages_kv>>
    /\ UNCHANGED notSql

NextSql ==
    \/ ProcessRawPackages
    \/ ConvertPackagesToSqlite
    \/ CreateMinifiedDbFromMain
    \/ BuildCompressedOne
    \/ MinifiedFinish

SpecSql == InitSql /\ [][NextSql]_vars

\* An architecture segment: a piece matching *linux*, *darwin* or *windows*.
NoArchSegment(id) == \A k \in 1..Len(id) : ~ContainsSys(id[k])

\* C9 (P1, identity): the package_id derived for a record with a non-empty
\* attrPath contains no architecture segment.
C9_NoArchSegmentInPackageId ==
    sqlPc = "written" =>
        \A id \in DOMAIN packagesTbl :
            packagesTbl[id].attributePath # <<>> => NoArchSegment(id)

\* Scenario S2: two records whose attrPaths are identical except for the
\* system segment (x86_64-linux against aarch64-darwin), both broken=false,
\* one of them unfree=true.
ScenarioS2 ==
    /\ Len(rawRecords) = 2
    /\ LET a == rawRecords[1].attrPath
           b == rawRecords[2].attrPath
       IN  /\ Len(a) = Len(b)
           /\ \E k \in 1..Len(a) :
                 /\ {a[k], b[k]} = {"x86_64-linux", "aarch64-darwin"}
                 /\ \A j \in 1..Len(a) : j # k => a[j] = b[j]
    /\ ~rawRecords[1].broken /\ ~rawRecords[2].broken
    /\ rawRecords[1].unfree # rawRecords[2].unfree

\* C10: scenario S2 produces exactly one canonical package, with
\* unfree=true, exactly two variant rows (one per system), and platforms
\* equal to the union of both records' platforms.
C10_TwoSystemsOnePackage ==
    (sqlPc = "written" /\ ScenarioS2) =>
        /\ Cardinality(DOMAIN packagesTbl) = 1
        /\ \A id \in DOMAIN packagesTbl :
              /\ packagesTbl[id].unfree
              /\ {r.system : r \in {v \in variationsTbl : v.package_id = id}}
                    = {"x86_64-linux", "aarch64-darwin"}
              /\ {pa[2] : pa \in {x \in pkgArchTbl : x[1] = id}}
                    = rawRecords[1].platforms \cup rawRecords[2].platforms
        /\ Cardinality(variationsTbl) = 2

\* ------------------------------------------------------------------------
\* Object store uploads: per-node writer, LanceDB dataset, minified artifact
\* ------------------------------------------------------------------------

\* The largest number of packages handed to write_nodes in the model.
MaxNodes == 3

\* batch_size of NodeS3Writer, scaled down from 50.
BatchSize == 2

\* Keys one delete_objects call carries, scaled down from the limit of 1000.
DeleteBatchLimit == 2

\* Node ids "<packageName>-<version>" of the packages; "" stands for a
\* package whose name or version is missing.
NodeIds == {"a-1", "b-1"}

NodeKeys == NodeIds \cup {"z-0", "index"}

\* The packages handed to write_nodes: the node id its name and version
\* give, and which package (package_id) it is.
NodePackages == [node : NodeIds \cup {""}, package_id : {1, 2}]

LanceKeys == {"data-0.lance", "data-1.lance", "stale.lance"}

\* The files of the freshly written LanceDB directory, in rglob order.
LanceFiles == <<"data-0.lance", "data-1.lance">>

MinKeys == {"fdnix.db", "fdnix.dict"}

KeysOf(job) ==
    IF job = "nodes" THEN NodeKeys
    ELSE IF job = "lance" THEN LanceKeys
    ELSE MinKeys

\* The store holding the objects `olds` of a previous run and nothing else.
StoreOf(keys, olds) == [k \in keys |-> IF k \in olds THEN "old" ELSE "none"]

\* NodeS3Writer._prepare_node_data: packages without name or version are
\* skipped.
_prepare_node_data(input) == LET valid(n) == n.node # "" IN SelectSeq(input, valid)

\* The batches of _write_nodes_batch: nodes[i:i + batch_size].
NumBatches(nodes) == (Len(nodes) + BatchSize - 1) \div BatchSize

Batch(nodes, b) ==
    SubSeq(nodes, (b - 1) * BatchSize + 1, Min(b * BatchSize, Len(nodes)))

Prepared == _prepare_node_data(nodeInput)

Present(st) == {k \in DOMAIN st : st[k] # "none"}

StartStore ==
    /\ storeJob \in {"nodes", "lance", "minified"}
    /\ oldStore \in
         IF storeJob = "nodes"
         THEN {{}, {"a-1", "index"}, {"a-1", "b-1", "z-0", "index"}}
         ELSE IF storeJob = "lance"
              THEN {{}, {"data-0.lance", "data-1.lance"},
                    {"data-0.lance", "data-1.lance", "stale.lance"}}
              ELSE {{}, MinKeys}
    /\ store = StoreOf(KeysOf(storeJob), oldStore)
    /\ storePc = "start"
    /\ clearFirst \in IF storeJob = "minified" THEN {FALSE} ELSE BOOLEAN
    /\ nodeInput \in
         IF storeJob = "nodes"
         THEN UNION {[1..n -> NodePackages] : n \in 1..MaxNodes}
         ELSE {<<>>}
    /\ nodeHolder = [n \in NodeIds |-> 0]
    /\ listing = <<>>
    /\ deleteLog = <<>>
    /\ batchPos = <<>>
    /\ batchCount = <<>>
    /\ batchSeen = {}
    /\ uploadStats = [success |-> 0, errors |-> 0, total |-> 0]

InitStore == StartStore /\ IdleShard /\ IdleSql /\ IdleEmbed /\ IdleGraph /\ IdleIndex /\ IdleRun /\ IdleExtract /\ IdleBedrock /\ IdleWait

\* The node writer goes on after the clear: with no valid node write_nodes
\* returns, otherwise _write_nodes_batch sets the total and cuts the batches.
AfterClear ==
    IF Prepared = <<>>
    THEN /\ storePc' = "index"
         /\ UNCHANGED <<batchPos, batchCount, uploadStats>>
    ELSE /\ storePc' = "upload"
         /\ batchPos' = [b \in 1..NumBatches(Prepared) |-> 0]
         /\ batchCount' = [b \in 1..NumBatches(Prepared) |->
                              [success |-> 0, errors |-> 0, raised |-> FALSE]]
         /\ uploadStats' = [uploadStats EXCEPT !.total = Len(Prepared)]

\* write_nodes up to the clear: with clear_existing the prefix is listed.
NodeBegin ==
    /\ storeJob = "nodes" /\ storePc = "start"
    /\ IF clearFirst /\ Present(store) # {}
       THEN /\ storePc' = "clear"
            /\ listing' = SetToSeq(Present(store))
            /\ UNCHANGED <<batchPos, batchCount, uploadStats>>
       ELSE /\ AfterClear
            /\ UNCHANGED listing
    /\ UNCHANGED <<nodeHolder, deleteLog, storeJob, oldStore, store, clearFirst, nodeInput, batchSeen>>
    /\ UNCHANGED notStore

\* _clear_existing_nodes: one delete_objects call.  A failure is logged and
\* ends the clear; the objects not yet deleted stay.
NodeClearBatch ==
    /\ storeJob = "nodes" /\ storePc = "clear"
    /\ \E ok \in BOOLEAN :
          LET n    == Min(DeleteBatchLimit, Len(listing))
              gone == {listing[i] : i \in 1..n}
              rest == SubSeq(listing, n + 1, Len(listing))
          IN  /\ deleteLog' = Append(deleteLog, [keys |-> n, ok |-> ok])
              /\ IF ok
                 THEN /\ store' = [k \in DOMAIN store |->
                                      IF k \in gone THEN "none" ELSE store[k]]
                      /\ listing' = rest
                      /\ IF rest = <<>>
                         THEN AfterClear
                         ELSE UNCHANGED <<storePc, batchPos, batchCount, uploadStats>>
                 ELSE /\ listing' = <<>>
                      /\ AfterClear
                      /\ UNCHANGED store
    /\ UNCHANGED <<nodeHolder, storeJob, oldStore, clearFirst, nodeInput, batchSeen>>
    /\ UNCHANGED notStore

\* _write_batch, one node of batch b: put_object, counted as success or error.
NodeWriteOne ==
    /\ storeJob = "nodes" /\ storePc = "upload"
    /\ \E b \in DOMAIN batchPos, ok \in BOOLEAN :
          /\ batchPos[b] < Len(Batch(Prepared, b))
          /\ LET node == Batch(Prepared, b)[batchPos[b] + 1]
             IN  /\ batchPos' = [batchPos EXCEPT ![b] = @ + 1]
                 /\ IF ok
                    THEN /\ store' = [store EXCEPT ![node.node] = "new"]
                         /\ nodeHolder' = [nodeHolder EXCEPT ![node.node] = node.package_id]
                         /\ batchCount' = [batchCount EXCEPT ![b].success = @ + 1]
                    ELSE /\ UNCHANGED <<store, nodeHolder>>
                         /\ batchCount' = [batchCount EXCEPT ![b].errors = @ + 1]
    /\ UNCHANGED <<deleteLog, storeJob, oldStore, storePc, clearFirst, nodeInput, listing,
                   batchSeen, uploadStats>>
    /\ UNCHANGED notStore

\* _write_batch of batch b raises: _get_s3_client, its first call, is outside
\* the per-node try, so the future of the batch holds the exception and no
\* node of the batch is written or counted.
NodeBatchRaises ==
    /\ storeJob = "nodes" /\ storePc = "upload"
    /\ \E b \in DOMAIN batchPos :
          /\ batchPos[b] = 0
          /\ ~batchCount[b].raised
          /\ batchPos' = [batchPos EXCEPT ![b] = Len(Batch(Prepared, b))]
          /\ batchCount' = [batchCount EXCEPT ![b].raised = TRUE]
    /\ UNCHANGED <<nodeHolder, deleteLog, storeJob, oldStore, store, storePc, clearFirst,
                   nodeInput, listing, batchSeen, uploadStats>>
    /\ UNCHANGED notStore

\* The errors the as_completed loop adds for batch b: a batch that ignores
\* its raised future adds only the errors _write_batch counted.
BatchErrors_CountedOnly(b) == batchCount[b].errors

\* The errors the as_completed loop adds for batch b: the error_count the
\* batch returned, or len(batches[batch_idx]) when its future raised.
BatchErrors(b) ==
    IF batchCount[b].raised THEN Len(Batch(Prepared, b)) ELSE batchCount[b].errors

\* _write_nodes_batch, one turn of the as_completed loop: the counts of a
\* finished batch are added under the lock; after the last one write_nodes
\* returns.
NodeBatchDone ==
    /\ storeJob = "nodes" /\ storePc = "upload"
    /\ \E b \in DOMAIN batchPos \ batchSeen :
          /\ batchPos[b] = Len(Batch(Prepared, b))
          /\ batchSeen' = batchSeen \cup {b}
          /\ uploadStats' = [uploadStats EXCEPT
                               !.success = @ + batchCount[b].success,
                               !.errors  = @ + BatchErrors(b)]
          /\ storePc' = IF batchSeen' = DOMAIN batchPos THEN "index" ELSE "upload"
    /\ UNCHANGED <<nodeHolder, deleteLog, storeJob, oldStore, store, clearFirst, nodeInput, listing,
                   batchPos, batchCount>>
    /\ UNCHANGED notStore

\* create_index_file: one put_object; a failure is logged.
NodeCreateIndex ==
    /\ storeJob = "nodes" /\ storePc = "index"
    /\ \E ok \in BOOLEAN :
          store' = IF ok THEN [store EXCEPT !["index"] = "new"] ELSE store
    /\ storePc' = "done"
    /\ UNCHANGED <<nodeHolder, deleteLog, storeJob, oldStore, clearFirst, nodeInput, listing, batchPos,
                   batchCount, batchSeen, uploadStats>>
    /\ UNCHANGED notStore

\* list_objects_v2 answers with one page of at most 1000 keys (scaled down
\* as the delete limit is), in key order.
ListPageLimit == DeleteBatchLimit

LanceKeyOrder == <<"data-0.lance", "data-1.lance", "stale.lance">>

\* The keys of the first page of a listing of the prefix.
FirstPage(st) ==
    LET present == SelectSeq(LanceKeyOrder, LAMBDA k : st[k] # "none")
    IN  {present[i] : i \in 1..Min(ListPageLimit, Len(present))}

\* LanceDBWriter._upload_to_s3 up to the upload loop: with
\* clear_before_upload _delete_s3_objects calls list_objects_v2 once and
\* deletes the keys of that response in one delete_objects call; a failure
\* is logged.
LanceClear ==
    /\ storeJob = "lance" /\ storePc = "start"
    /\ \E ok \in BOOLEAN :
          LET page == FirstPage(store)
          IN  IF clearFirst /\ page # {}
              THEN /\ deleteLog' = Append(deleteLog, [keys |-> Cardinality(page), ok |-> ok])
                   /\ store' = IF ok
                               THEN [k \in DOMAIN store |-> IF k \in page THEN "none" ELSE store[k]]
                               ELSE store
              ELSE UNCHANGED <<store, deleteLog>>
    /\ storePc' = "upload"
    /\ listing' = LanceFiles
    /\ UNCHANGED <<nodeHolder, storeJob, oldStore, clearFirst, nodeInput, batchPos,
                   batchCount, batchSeen, uploadStats>>
    /\ UNCHANGED notStore

\* LanceDBWriter._upload_to_s3, one upload_file of the loop over the dataset
\* directory; a failure leaves the function.
LanceUploadFile ==
    /\ storeJob = "lance" /\ storePc = "upload"
    /\ \E ok \in BOOLEAN :
          IF ok
          THEN /\ store' = [store EXCEPT ![Head(listing)] = "new"]
               /\ listing' = Tail(listing)
               /\ storePc' = IF Tail(listing) = <<>> THEN "done" ELSE "upload"
          ELSE /\ storePc' = "failed"
               /\ UNCHANGED <<store, listing>>
    /\ UNCHANGED <<nodeHolder, deleteLog, storeJob, oldStore, clearFirst, nodeInput, batchPos,
                   batchCount, batchSeen, uploadStats>>
    /\ UNCHANGED notStore

\* MinifiedWriter._upload_to_s3: upload_file of the database.
MinifiedUploadDb ==
    /\ storeJob = "minified" /\ storePc = "start"
    /\ \E ok \in BOOLEAN :
          IF ok
          THEN /\ store' = [store EXCEPT !["fdnix.db"] = "new"]
               /\ storePc' = "dict"
          ELSE /\ storePc' = "failed"
               /\ UNCHANGED store
    /\ UNCHANGED <<nodeHolder, deleteLog, storeJob, oldStore, clearFirst, nodeInput, listing, batchPos,
                   batchCount, batchSeen, uploadStats>>
    /\ UNCHANGED notStore

\* MinifiedWriter._upload_to_s3: upload_file of the dictionary.
MinifiedUploadDict ==
    /\ storeJob = "minified" /\ storePc = "dict"
    /\ \E ok \in BOOLEAN :
          IF ok
          THEN /\ store' = [store EXCEPT !["fdnix.dict"] = "new"]
               /\ storePc' = "done"
          ELSE /\ storePc' = "failed"
               /\ UNCHANGED store
    /\ UNCHANGED <<nodeHolder, deleteLog, storeJob, oldStore, clearFirst, nodeInput, listing, batchPos,
                   batchCount, batchSeen, uploadStats>>
    /\ UNCHANGED notStore

NextStore ==
    \/ NodeBegin
    \/ NodeClearBatch
    \/ NodeWriteOne
    \/ NodeBatchRaises
    \/ NodeBatchDone
    \/ NodeCreateIndex
    \/ LanceClear
    \/ LanceUploadFile
    \/ MinifiedUploadDb
    \/ MinifiedUploadDict

SpecStore == InitStore /\ [][NextStore]_vars

\* The objects of the artifact the running writer publishes.
NewKeys ==
    IF storeJob = "nodes" THEN {n.node : n \in Range(Prepared)} \cup {"index"}
    ELSE IF storeJob = "lance" THEN Range(LanceFiles)
    ELSE MinKeys

CompleteOld == store = StoreOf(DOMAIN store, oldStore)

CompleteNew == store = [k \in DOMAIN store |-> IF k \in NewKeys THEN "new" ELSE "none"]

\* C2: artifact promotion is atomic: at every moment of a run, also of one
\* that stops part-way, a reader of the published prefix (the node tree, the
\* LanceDB dataset) sees the complete previous artifact or the complete new
\* one, never an empty prefix or a mixture.
C2_AtomicPromotion ==
    storeJob \in {"nodes", "lance"} => (CompleteOld \/ CompleteNew)

\* C8: the compressed database and its dictionary are shipped together: once
\* the minified upload has started, the store never holds the new database
\* without the dictionary it was compressed with.
C8_DatabaseWithDictionary ==
    (storeJob = "minified" /\ store["fdnix.db"] = "new")
        => store["fdnix.dict"] = "new"

\* ------------------------------------------------------------------------
\* Rate-limited embedding client
\* ------------------------------------------------------------------------

\* Time is counted in ticks.
TicksPerSecond == 2

\* The longest batch, the longest a request stays in flight (in ticks), the
\* largest configured limits and the last instant of the clock.
MaxTexts == 3
MaxLatency == 1
MaxConcurrent == 2
MaxRpm == 3
MaxTpm == 3
MaxClock == 600

\* The 60 seconds of the sliding windows.
Window == 60 * TicksPerSecond

max_retries == 3

base_delay == 1 * TicksPerSecond

_throttle_break_threshold == 5

_throttle_cooldown == 10 * TicksPerSecond

\* max(0.01, ...) seconds: the shortest sleep of the limiter, one tick here.
MinSleep == Max(1, TicksPerSecond \div 100)

\* The lengths, in characters, a text of the batch may have.
TextLens == {4, 8}

Workers == 1..Len(texts)

\* GeminiClient._estimate_tokens, on the length of the text.
_estimate_tokens(len) == Max(1, len \div 4)

\* What the service returns for a text, and the empty vector.
Embedding(len) == [kind |-> "vec", of |-> len]

EmptyVec == [kind |-> "empty", of |-> 0]

NoResult == [kind |-> "none", of |-> 0]

RECURSIVE PruneReq(_, _)
\* while self._req_times and self._req_times[0] < cutoff: popleft()
PruneReq(q, cutoff) ==
    IF q # <<>> /\ Head(q) < cutoff THEN PruneReq(Tail(q), cutoff) ELSE q

RECURSIVE PruneTok(_, _)
\* while self._tok_times and self._tok_times[0][0] < cutoff: popleft()
PruneTok(q, cutoff) ==
    IF q # <<>> /\ Head(q)[1] < cutoff THEN PruneTok(Tail(q), cutoff) ELSE q

RECURSIVE token_sum(_)
token_sum(q) == IF q = <<>> THEN 0 ELSE Head(q)[2] + token_sum(Tail(q))

\* A limiter whose while loop is never entered.
LimiterFull_Never(rq, tq, est) == FALSE

\* The condition of the limiter's while loop.
LimiterFull(rq, tq, est) ==
    \/ Len(rq) >= requests_per_minute
    \/ token_sum(tq) + est > tokens_per_minute

\* sleep_for of the limiter's while loop.
sleep_for(rq, tq, now) ==
    LET next_req_expire == IF rq # <<>> THEN Head(rq) + Window ELSE now
        next_tok_expire == IF tq # <<>> THEN Head(tq)[1] + Window ELSE now
    IN  Max(MinSleep, Min(next_req_expire, next_tok_expire) - now)

\* A backoff that does not grow with the attempt.
BackoffDelay_Flat(attempt) == base_delay

\* delay = base_delay * 2 ** attempt, for the attempts 0 and 1 that sleep.
BackoffDelay(attempt) == IF attempt = 0 THEN base_delay ELSE 2 * base_delay

\* jitter = random.uniform(0, delay * 0.25)
Jitter(delay) == 0..(delay \div 4)

\* The awaits that end at a time: sleeps and the HTTP request.
Timed(w) == wpc[w] \in {"lockSleep", "inflight", "cooldown", "backoff"}

\* The tasks that are inside `async with self._sem`.
InSemaphore(w) ==
    wpc[w] \in {"waitLock", "lockSleep", "inflight", "cooldown", "backoff"}

StartEmbed ==
    /\ texts \in UNION {[1..n -> TextLens] : n \in 0..MaxTexts}
    /\ max_concurrent_requests \in 1..MaxConcurrent
    /\ requests_per_minute \in 1..MaxRpm
    /\ tokens_per_minute \in 2..MaxTpm
    /\ clock = 0
    /\ batchPc = "called"
    /\ wpc = [w \in Workers |-> "created"]
    /\ wattempt = [w \in Workers |-> 0]
    /\ wnow = [w \in Workers |-> 0]
    /\ wwake = [w \in Workers |-> 0]
    /\ _sem = max_concurrent_requests
    /\ semQ = <<>>
    /\ _rate_lock = 0
    /\ lockQ = <<>>
    /\ _req_times = <<>>
    /\ _tok_times = <<>>
    /\ _throttle_streak = 0
    /\ results = <<>>
    /\ completion = <<>>
    /\ sentLog = <<>>
    /\ reassembled = FALSE
    /\ embeddings = <<>>

InitEmbed == StartEmbed /\ IdleShard /\ IdleSql /\ IdleStore /\ IdleGraph /\ IdleIndex /\ IdleRun /\ IdleExtract /\ IdleBedrock /\ IdleWait

config == <<texts, max_concurrent_requests, requests_per_minute,
            tokens_per_minute>>

\* self._client.post(...): one HTTP request goes out; the answer comes after
\* some latency.
SendRequest(w, attempt) ==
    /\ wpc' = [wpc EXCEPT ![w] = "inflight"]
    /\ wattempt' = [wattempt EXCEPT ![w] = attempt]
    /\ \E lat \in 1..MaxLatency : wwake' = [wwake EXCEPT ![w] = clock + lat]
    /\ sentLog' = Append(sentLog, [t |-> clock,
                                   tokens |-> _estimate_tokens(texts[w]),
                                   attempt |-> attempt])

\* GeminiClient._respect_rate_limits from the moment task w holds the lock:
\* prune with `now`, then either sleep with the lock held or record the
\* request, release the lock and go on to the first attempt (the local `now`
\* is gone then).
_respect_rate_limits(w, now) ==
    LET est == _estimate_tokens(texts[w])
        rq == PruneReq(_req_times, now - Window)
        tq == PruneTok(_tok_times, now - Window)
    IN  IF LimiterFull(rq, tq, est)
        THEN /\ _req_times' = rq
             /\ _tok_times' = tq
             /\ _rate_lock' = w
             /\ wnow' = [wnow EXCEPT ![w] = now]
             /\ wpc' = [wpc EXCEPT ![w] = "lockSleep"]
             /\ wwake' = [wwake EXCEPT ![w] = clock + sleep_for(rq, tq, now)]
             /\ UNCHANGED <<wattempt, sentLog>>
        ELSE /\ _req_times' = Append(rq, now)
             /\ _tok_times' = Append(tq, <<now, est>>)
             /\ _rate_lock' = 0
             /\ wnow' = [wnow EXCEPT ![w] = 0]
             /\ SendRequest(w, 0)

\* The worker after `async with self._sem` let it in: `now` is read, then the
\* lock is taken, or waited for when another task holds it.
EnterSemaphore(w) ==
    IF _rate_lock = 0 /\ lockQ = <<>>
    THEN /\ _respect_rate_limits(w, clock)
         /\ UNCHANGED lockQ
    ELSE /\ wpc' = [wpc EXCEPT ![w] = "waitLock"]
         /\ wnow' = [wnow EXCEPT ![w] = clock]
         /\ lockQ' = Append(lockQ, w)
         /\ UNCHANGED <<wattempt, wwake, sentLog, _req_times, _tok_times,
                        _rate_lock>>

\* generate_embeddings_batch up to `await asyncio.gather(*tasks)`.
CallBatch ==
    /\ batchPc = "called"
    /\ ~reassembled
    /\ IF texts = <<>>
       THEN /\ batchPc' = "returned"
            /\ results' = <<>>
       ELSE /\ batchPc' = "gather"
            /\ results' = [w \in Workers |-> NoResult]
    /\ UNCHANGED <<config, clock, wpc, wattempt, wnow, wwake, _sem, semQ,
                   _rate_lock, lockQ, _req_times, _tok_times,
                   _throttle_streak, completion, sentLog, reassembled,
                   embeddings>>
    /\ UNCHANGED notEmbed

\* The first step of a worker task; the tasks start in the order they were
\* created.
WorkerStart(w) ==
    /\ batchPc = "gather"
    /\ wpc[w] = "created"
    /\ \A v \in 1..(w - 1) : wpc[v] # "created"
    /\ IF _sem > 0 /\ semQ = <<>>
       THEN /\ _sem' = _sem - 1
            /\ EnterSemaphore(w)
            /\ UNCHANGED semQ
       ELSE /\ wpc' = [wpc EXCEPT ![w] = "waitSem"]
            /\ semQ' = Append(semQ, w)
            /\ UNCHANGED <<_sem, wattempt, wnow, wwake, sentLog, _req_times,
                           _tok_times, _rate_lock, lockQ>>
    /\ UNCHANGED <<config, clock, batchPc, _throttle_streak, results,
                   completion, reassembled, embeddings>>
    /\ UNCHANGED notEmbed

\* A task waiting for the semaphore is let in.
SemGranted(w) ==
    /\ batchPc = "gather"
    /\ wpc[w] = "waitSem"
    /\ _sem > 0
    /\ semQ # <<>> /\ Head(semQ) = w
    /\ semQ' = Tail(semQ)
    /\ _sem' = _sem - 1
    /\ EnterSemaphore(w)
    /\ UNCHANGED <<config, clock, batchPc, _throttle_streak, results,
                   completion, reassembled, embeddings>>
    /\ UNCHANGED notEmbed

\* A task waiting for the limiter's lock gets it; its `now` is the one it read
\* before it waited.
LockGranted(w) ==
    /\ batchPc = "gather"
    /\ wpc[w] = "waitLock"
    /\ _rate_lock = 0
    /\ lockQ # <<>> /\ Head(lockQ) = w
    /\ lockQ' = Tail(lockQ)
    /\ _respect_rate_limits(w, wnow[w])
    /\ UNCHANGED <<config, clock, batchPc, _sem, semQ, _throttle_streak,
                   results, completion, reassembled, embeddings>>
    /\ UNCHANGED notEmbed

\* The sleep inside the limiter's while loop ends: now = time.monotonic().
LimiterWake(w) ==
    /\ batchPc = "gather"
    /\ wpc[w] = "lockSleep"
    /\ clock >= wwake[w]
    /\ _respect_rate_limits(w, clock)
    /\ UNCHANGED <<config, clock, batchPc, _sem, semQ, lockQ,
                   _throttle_streak, results, completion, reassembled,
                   embeddings>>
    /\ UNCHANGED notEmbed

\* The slot a worker would write if results were appended as they complete.
ResultSlot_ByCompletion(w) == Len(completion) + 1

\* results[idx] = ...: the slot of the results list worker w writes.
ResultSlot(w) == w

\* The end of a worker: its result is stored, the semaphore is released and
\* the finally block counts it; its locals are gone.
WorkerExit(w, res) ==
    /\ results' = [results EXCEPT ![ResultSlot(w)] = res]
    /\ completion' = Append(completion, w)
    /\ _sem' = _sem + 1
    /\ wpc' = [wpc EXCEPT ![w] = "done"]
    /\ wattempt' = [wattempt EXCEPT ![w] = 0]
    /\ wwake' = [wwake EXCEPT ![w] = 0]

\* The tail of both except branches of the retry loop: raise on the last
\* attempt (the worker then stores []), otherwise sleep delay + jitter.
AfterFailure(w) ==
    IF wattempt[w] = max_retries - 1
    THEN WorkerExit(w, EmptyVec)
    ELSE /\ \E j \in Jitter(BackoffDelay(wattempt[w])) :
                wwake' = [wwake EXCEPT
                             ![w] = clock + BackoffDelay(wattempt[w]) + j]
         /\ wpc' = [wpc EXCEPT ![w] = "backoff"]
         /\ UNCHANGED <<results, completion, _sem, wattempt>>

\* The request of w is answered with an embedding.
RespondOk(w) ==
    /\ batchPc = "gather"
    /\ wpc[w] = "inflight"
    /\ clock >= wwake[w]
    /\ _throttle_streak' = 0
    /\ WorkerExit(w, Embedding(texts[w]))
    /\ UNCHANGED <<config, clock, batchPc, wnow, semQ, _rate_lock, lockQ,
                   _req_times, _tok_times, sentLog, reassembled, embeddings>>
    /\ UNCHANGED notEmbed

\* The request of w is answered 200 without usable embedding values:
\* _generate_single_embedding returns [].
RespondInvalid(w) ==
    /\ batchPc = "gather"
    /\ wpc[w] = "inflight"
    /\ clock >= wwake[w]
    /\ _throttle_streak' = 0
    /\ WorkerExit(w, EmptyVec)
    /\ UNCHANGED <<config, clock, batchPc, wnow, semQ, _rate_lock, lockQ,
                   _req_times, _tok_times, sentLog, reassembled, embeddings>>
    /\ UNCHANGED notEmbed

\* The request of w is answered 429.
RespondThrottled(w) ==
    /\ batchPc = "gather"
    /\ wpc[w] = "inflight"
    /\ clock >= wwake[w]
    /\ _throttle_streak' = _throttle_streak + 1
    /\ IF _throttle_streak + 1 >= _throttle_break_threshold
       THEN /\ wpc' = [wpc EXCEPT ![w] = "cooldown"]
            /\ wwake' = [wwake EXCEPT ![w] = clock + _throttle_cooldown]
            /\ UNCHANGED <<results, completion, _sem, wattempt>>
       ELSE AfterFailure(w)
    /\ UNCHANGED <<config, clock, batchPc, wnow, semQ, _rate_lock, lockQ,
                   _req_times, _tok_times, sentLog, reassembled, embeddings>>
    /\ UNCHANGED notEmbed

\* The request of w fails otherwise: another HTTP status, a transport error,
\* the 30 s timeout of the HTTP client.
RespondError(w) ==
    /\ batchPc = "gather"
    /\ wpc[w] = "inflight"
    /\ clock >= wwake[w]
    /\ AfterFailure(w)
    /\ UNCHANGED <<config, clock, batchPc, wnow, semQ, _rate_lock, lockQ,
                   _req_times, _tok_times, _throttle_streak, sentLog,
                   reassembled, embeddings>>
    /\ UNCHANGED notEmbed

\* The cooldown sleep of the circuit breaker ends.
CooldownEnd(w) ==
    /\ batchPc = "gather"
    /\ wpc[w] = "cooldown"
    /\ clock >= wwake[w]
    /\ _throttle_streak' = 0
    /\ AfterFailure(w)
    /\ UNCHANGED <<config, clock, batchPc, wnow, semQ, _rate_lock, lockQ,
                   _req_times, _tok_times, sentLog, reassembled, embeddings>>
    /\ UNCHANGED notEmbed

\* The backoff sleep ends: the next attempt of the retry loop is sent.
BackoffEnd(w) ==
    /\ batchPc = "gather"
    /\ wpc[w] = "backoff"
    /\ clock >= wwake[w]
    /\ SendRequest(w, wattempt[w] + 1)
    /\ UNCHANGED <<config, clock, batchPc, wnow, _sem, semQ, _rate_lock,
                   lockQ, _req_times, _tok_times, _throttle_streak, results,
                   completion, reassembled, embeddings>>
    /\ UNCHANGED notEmbed

\* asyncio.gather returns once every worker has ended; the batch then sleeps
\* inter_batch_delay (0.02 s, less than a tick).
GatherDone ==
    /\ batchPc = "gather"
    /\ \A w \in Workers : wpc[w] = "done"
    /\ batchPc' = "smoothing"
    /\ UNCHANGED <<config, clock, wpc, wattempt, wnow, wwake, _sem, semQ,
                   _rate_lock, lockQ, _req_times, _tok_times,
                   _throttle_streak, results, completion, sentLog,
                   reassembled, embeddings>>
    /\ UNCHANGED notEmbed

\* return results
ReturnResults ==
    /\ batchPc = "smoothing"
    /\ batchPc' = "returned"
    /\ UNCHANGED <<config, clock, wpc, wattempt, wnow, wwake, _sem, semQ,
                   _rate_lock, lockQ, _req_times, _tok_times,
                   _throttle_streak, results, completion, sentLog,
                   reassembled, embeddings>>
    /\ UNCHANGED notEmbed

\* The caller cancels the task that awaits generate_embeddings_batch: gather
\* cancels every worker that has not ended.  CancelledError is raised at the
\* await the worker is suspended at; it is not an Exception, so the worker's
\* except clause does not store a result; the `async with` blocks release the
\* semaphore and the lock, the finally block counts the worker.
Cancel ==
    /\ batchPc \in {"gather", "smoothing"}
    /\ batchPc' = "cancelled"
    /\ wpc' = [w \in Workers |->
                  IF wpc[w] = "done" THEN "done" ELSE "cancelled"]
    /\ completion' =
          completion \o SetToSortedSeq({w \in Workers : wpc[w] # "done"})
    /\ _sem' = _sem + Cardinality({w \in Workers : InSemaphore(w)})
    /\ semQ' = <<>>
    /\ lockQ' = <<>>
    /\ _rate_lock' = 0
    /\ UNCHANGED <<config, clock, wattempt, wnow, wwake, _req_times,
                   _tok_times, _throttle_streak, results, sentLog,
                   reassembled, embeddings>>
    /\ UNCHANGED notEmbed

\* A task the event loop can run now.
Runnable(w) ==
    \/ wpc[w] = "created"
    \/ wpc[w] = "waitSem" /\ _sem > 0 /\ Head(semQ) = w
    \/ wpc[w] = "waitLock" /\ _rate_lock = 0 /\ Head(lockQ) = w
    \/ Timed(w) /\ wwake[w] <= clock

\* The earliest end of a sleep or of a request.
NextWake ==
    LET T == {wwake[w] : w \in {v \in Workers : Timed(v)}}
    IN  CHOOSE t \in T : \A u \in T : t <= u

\* Time passes while every task is suspended, up to the next timed event.
Tick ==
    /\ batchPc = "gather"
    /\ \A w \in Workers : ~Runnable(w)
    /\ \E w \in Workers : Timed(w)
    /\ NextWake <= MaxClock
    /\ clock' = NextWake
    /\ sentLog' = SelectSeq(sentLog, LAMBDA r : r.t > NextWake - Window)
    /\ UNCHANGED <<config, batchPc, wpc, wattempt, wnow, wwake, _sem, semQ,
                   _rate_lock, lockQ, _req_times, _tok_times,
                   _throttle_streak, results, completion, reassembled,
                   embeddings>>
    /\ UNCHANGED notEmbed

\* The pairs a batch client may hand back for the texts: <<record id, vector>>
\* for any of the records, each once, in any order.
PairLists ==
    LET Orders == UNION {[1..k -> Workers] : k \in 0..Len(texts)}
    IN  {[i \in DOMAIN o |-> <<o[i], Embedding(texts[o[i]])>>] :
            o \in {p \in Orders : \A i, j \in DOMAIN p : p[i] = p[j] => i = j}}

\* embeddings_dict = {record_id: embedding ...};
\* embeddings = [embeddings_dict.get(pkg_id, []) for pkg_id in new_package_ids]
Reassemble(ids, pairs) ==
    [i \in DOMAIN ids |->
        IF \E k \in DOMAIN pairs : pairs[k][1] = ids[i]
        THEN LET last == CHOOSE k \in DOMAIN pairs :
                            /\ pairs[k][1] = ids[i]
                            /\ \A m \in DOMAIN pairs :
                                  pairs[m][1] = ids[i] => m <= k
             IN  pairs[last][2]
        ELSE EmptyVec]

\* EmbeddingGenerator.process_packages_batch, which hands the texts to its
\* batch client instead, puts the pairs it gets back into the order of its
\* package ids.
ProcessPackagesBatch ==
    /\ batchPc = "called"
    /\ texts # <<>>
    /\ ~reassembled
    /\ reassembled' = TRUE
    /\ \E pairs \in PairLists :
          embeddings' = Reassemble([w \in Workers |-> w], pairs)
    /\ UNCHANGED <<config, clock, batchPc, wpc, wattempt, wnow, wwake, _sem,
                   semQ, _rate_lock, lockQ, _req_times, _tok_times,
                   _throttle_streak, results, completion, sentLog>>
    /\ UNCHANGED notEmbed

NextEmbed ==
    \/ CallBatch
    \/ \E w \in Workers : WorkerStart(w)
    \/ \E w \in Workers : SemGranted(w)
    \/ \E w \in Workers : LockGranted(w)
    \/ \E w \in Workers : LimiterWake(w)
    \/ \E w \in Workers : RespondOk(w)
    \/ \E w \in Workers : RespondInvalid(w)
    \/ \E w \in Workers : RespondThrottled(w)
    \/ \E w \in Workers : RespondError(w)
    \/ \E w \in Workers : CooldownEnd(w)
    \/ \E w \in Workers : BackoffEnd(w)
    \/ GatherDone
    \/ ReturnResults
    \/ Cancel
    \/ Tick
    \/ ProcessPackagesBatch

SpecEmbed == InitEmbed /\ [][NextEmbed]_vars

RECURSIVE SentTokens(_)
\* The token estimates of the requests of a log, summed.
SentTokens(log) ==
    IF log = <<>> THEN 0 ELSE Head(log).tokens + SentTokens(Tail(log))

\* C1: in every 60-second window the requests actually sent to the embedding
\* service, retries included, number at most requests_per_minute and their
\* token estimates sum to at most tokens_per_minute.  (sentLog holds the
\* requests sent in the 60 seconds that end now.)
C1_RateLimitWindow ==
    /\ Len(sentLog) <= requests_per_minute
    /\ SentTokens(sentLog) <= tokens_per_minute

\* The place of worker w in the order of completion (0: not ended).
CompletionRank(w) ==
    IF \E k \in DOMAIN completion : completion[k] = w
    THEN CHOOSE k \in DOMAIN completion : completion[k] = w
    ELSE 0

\* The list holds one result per text, and the result at position i is the
\* embedding of text i or the empty vector of a failure.
InInputOrder(list) ==
    /\ Len(list) = Len(texts)
    /\ \A i \in DOMAIN list : list[i] \in {Embedding(texts[i]), EmptyVec}

\* C4: generate_embeddings_batch returns exactly one result per input, and
\* the result at position i belongs to input i, in whatever order the
\* concurrent requests completed or failed; the list process_packages_batch
\* reassembles has the same shape.
C4_OneResultPerInputInOrder ==
    /\ batchPc = "returned" => InInputOrder(results)
    /\ reassembled => InInputOrder(embeddings)

\* A batch has returned in which a later text, different from an earlier
\* one, completed first, with both embedded and another request failed.
C4_Witness ==
    /\ batchPc = "returned"
    /\ \E i, j \in Workers :
          /\ i < j
          /\ texts[i] # texts[j]
          /\ CompletionRank(j) < CompletionRank(i)
          /\ results[i] = Embedding(texts[i])
          /\ results[j] = Embedding(texts[j])
    /\ \E k \in Workers : results[k] = EmptyVec

\* C5: when the caller cancels the batch, a request that is in flight is not
\* cut off (its worker goes on to its response), and once the batch is
\* cancelled no further request is sent.
C5_CancelSparesInFlight ==
    [][/\ \A w \in DOMAIN wpc :
             wpc[w] = "inflight" => wpc'[w] # "cancelled"
       /\ batchPc = "cancelled" => sentLog' = sentLog]_vars

\* C7: the cooldown's reset of the throttle streak happens only when the
\* streak stands at 5 or more consecutive throttles (or has nothing to
\* lose): it never wipes out throttles counted after a success or after
\* another reset.
C7_BreakerResetOnlyAtThreshold ==
    [][\A w \in DOMAIN wpc :
          (wpc[w] = "cooldown" /\ wpc'[w] \notin {"cooldown", "cancelled"})
             => \/ _throttle_streak >= _throttle_break_threshold
                \/ _throttle_streak = 0]_vars

\* ------------------------------------------------------------------------
\* Dependency graph (nixpkgs-processor/src/dependency_graph.py)
\* ------------------------------------------------------------------------

MaxGraphRecords == 3
MaxDeps == 2

\* The i-th record's derivation path.
DrvOf(i) == <<"drv", i>>

GraphDrvs == {DrvOf(i) : i \in 1..MaxGraphRecords}

\* Names as their dash-separated parts; the empty name is parsed as "unknown".
GraphNames == {<<"a", "2.12">>, <<"b", "2.12">>, <<>>}

GraphInputs(n) ==
    [1..n -> [name : GraphNames,
              inputDrvs : {D \in SUBSET GraphDrvs : Cardinality(D) <= MaxDeps}]]

GraphRaw(n) ==
    {[i \in 1..n |-> [name |-> r[i].name, drvPath |-> DrvOf(i),
                      inputDrvs |-> r[i].inputDrvs]] : r \in GraphInputs(n)}

\* f"{package_name}-{version}"
NodeIdOf(rec) ==
    LET nv == _parse_name_version(rec.name)
    IN  nv.packageName \o <<"-">> \o nv.version

\* if not package_name or package_name == "unknown": continue
SkippedRecord(rec) ==
    LET nv == _parse_name_version(rec.name)
    IN  nv.packageName = <<>> \/ nv.packageName = <<"unknown">>

Lookup(map, key) == IF key \in DOMAIN map THEN map[key] ELSE 0

StartGraph ==
    /\ grRaw \in UNION {GraphRaw(n) : n \in 0..MaxGraphRecords}
    /\ grPc = "pass1"
    /\ grPos = 0
    /\ vertex_to_node_id = <<>>
    /\ node_id_to_vertex = <<>>
    /\ package_mapping = <<>>
    /\ edges = <<>>
    /\ _out_adj = <<>>
    /\ _in_adj = <<>>
    /\ dependency_data = <<>>
    /\ circular_dependencies = <<>>

InitGraph == StartGraph /\ IdleShard /\ IdleSql /\ IdleStore /\ IdleEmbed /\ IdleIndex /\ IdleRun /\ IdleExtract /\ IdleBedrock /\ IdleWait

\* First pass of build_from_raw_packages, one record.
AddVertex ==
    /\ grPc = "pass1"
    /\ grPos < Len(grRaw)
    /\ LET rec == grRaw[grPos + 1]
           node_id == NodeIdOf(rec)
           vertex_idx == Len(vertex_to_node_id) + 1   \* graph.add_vertex()
       IN  IF SkippedRecord(rec)
           THEN UNCHANGED <<vertex_to_node_id, node_id_to_vertex, package_mapping>>
           ELSE /\ vertex_to_node_id' = Append(vertex_to_node_id, node_id)
                /\ node_id_to_vertex' = (node_id :> vertex_idx) @@ node_id_to_vertex
                /\ package_mapping' = (rec.drvPath :> vertex_idx) @@ package_mapping
    /\ grPos' = grPos + 1
    /\ UNCHANGED <<grRaw, grPc, edges, _out_adj, _in_adj, dependency_data, circular_dependencies>>
    /\ UNCHANGED notGraph

\* The first pass has seen every record; the second pass starts.
StartSecondPass ==
    /\ grPc = "pass1"
    /\ grPos = Len(grRaw)
    /\ grPc' = "pass2"
    /\ grPos' = 0
    /\ UNCHANGED <<grRaw, vertex_to_node_id, node_id_to_vertex, package_mapping,
                   edges, _out_adj, _in_adj, dependency_data, circular_dependencies>>
    /\ UNCHANGED notGraph

\* if target_vertex is not None and target_vertex != source_vertex
AddsEdge(source, target) == target # 0 /\ target # source

\* The edges one record adds, its inputDrvs taken in key order.
EdgesOf(rec) ==
    LET source == Lookup(node_id_to_vertex, NodeIdOf(rec))
        deps == SetToSortedSeq({d[2] : d \in rec.inputDrvs})
        targets == [k \in 1..Len(deps) |-> Lookup(package_mapping, DrvOf(deps[k]))]
    IN  IF source = 0 THEN <<>>
        ELSE SelectSeq([k \in 1..Len(deps) |-> <<source, targets[k]>>],
                       LAMBDA e : AddsEdge(e[1], e[2]))

\* Second pass of build_from_raw_packages, one record.
AddEdges ==
    /\ grPc = "pass2"
    /\ grPos < Len(grRaw)
    /\ LET rec == grRaw[grPos + 1]
       IN  edges' = IF SkippedRecord(rec) THEN edges ELSE edges \o EdgesOf(rec)
    /\ grPos' = grPos + 1
    /\ UNCHANGED <<grRaw, grPc, vertex_to_node_id, node_id_to_vertex,
                   package_mapping, _out_adj, _in_adj, dependency_data, circular_dependencies>>
    /\ UNCHANGED notGraph

\* The targets (sources) of the edges of vertex v, in edge order.
AdjacencyOf(v, from, to) ==
    LET mine == SelectSeq(edges, LAMBDA e : e[from] = v)
    IN  [k \in 1..Len(mine) |-> mine[k][to]]

\* _build_adjacency, which ends build_from_raw_packages.
BuildAdjacency ==
    /\ grPc = "pass2"
    /\ grPos = Len(grRaw)
    /\ _out_adj' = [v \in 1..Len(vertex_to_node_id) |-> AdjacencyOf(v, 1, 2)]
    /\ _in_adj' = [v \in 1..Len(vertex_to_node_id) |-> AdjacencyOf(v, 2, 1)]
    /\ grPc' = "built"
    /\ UNCHANGED <<grRaw, grPos, vertex_to_node_id, node_id_to_vertex,
                   package_mapping, edges, dependency_data, circular_dependencies>>
    /\ UNCHANGED notGraph

NodeIdsOf(vertices) == [k \in 1..Len(vertices) |-> vertex_to_node_id[vertices[k]]]

get_dependencies(node_id) ==
    LET vertex_idx == Lookup(node_id_to_vertex, node_id)
    IN  IF vertex_idx = 0 THEN <<>> ELSE NodeIdsOf(_out_adj[vertex_idx])

get_dependents(node_id) ==
    LET vertex_idx == Lookup(node_id_to_vertex, node_id)
    IN  IF vertex_idx = 0 THEN <<>> ELSE NodeIdsOf(_in_adj[vertex_idx])

\* The vertices of a neighbour list not yet visited, each once, in order.
RECURSIVE Unvisited(_, _)
Unvisited(neighbors, visited) ==
    IF neighbors = <<>> THEN <<>>
    ELSE IF Head(neighbors) \in visited
         THEN Unvisited(Tail(neighbors), visited)
         ELSE <<Head(neighbors)>>
                  \o Unvisited(Tail(neighbors), visited \cup {Head(neighbors)})

\* The breadth-first loop shared by _get_descendants and _get_ancestors.
RECURSIVE Traverse(_, _, _, _)
Traverse(adj, queue, visited, found) ==
    IF queue = <<>> THEN found
    ELSE LET current == Head(queue)
             fresh == Unvisited(adj[current], visited)
         IN  Traverse(adj, Tail(queue) \o fresh, visited \cup Range(fresh),
                      Append(found, vertex_to_node_id[current]))

_get_descendants(vertex_idx) ==
    LET seed == Unvisited(_out_adj[vertex_idx], {})
    IN  Traverse(_out_adj, seed, Range(seed), <<>>)

_get_ancestors(vertex_idx) ==
    LET seed == Unvisited(_in_adj[vertex_idx], {})
    IN  Traverse(_in_adj, seed, Range(seed), <<>>)

get_all_dependencies(node_id) ==
    LET vertex_idx == Lookup(node_id_to_vertex, node_id)
    IN  IF vertex_idx = 0 THEN <<>> ELSE _get_descendants(vertex_idx)

get_all_dependents(node_id) ==
    LET vertex_idx == Lookup(node_id_to_vertex, node_id)
    IN  IF vertex_idx = 0 THEN <<>> ELSE _get_ancestors(vertex_idx)

get_dependency_info(node_id) ==
    [direct_dependencies |-> get_dependencies(node_id),
     direct_dependents |-> get_dependents(node_id),
     all_dependencies |-> get_all_dependencies(node_id),
     all_dependents |-> get_all_dependents(node_id)]

RECURSIVE _dfs_find_cycles(_, _, _), DfsNeighbors(_, _, _, _)
\* DependencyGraph._dfs_find_cycles: the vertex is marked visited and
\* pushed on the path (rec_stack holds the vertices of the path), its
\* out-neighbours are taken in edge order, and the visited set is handed
\* back with the cycles found.
_dfs_find_cycles(vertex_idx, visited, path) ==
    DfsNeighbors(_out_adj[vertex_idx], visited \cup {vertex_idx},
                 Append(path, vertex_idx), <<>>)

\* The loop over the out-neighbours: a neighbour on the stack closes a
\* cycle, the slice of the path from it plus the neighbour again; an
\* unvisited neighbour is descended into; a visited one is passed over.
DfsNeighbors(neighbors, visited, path, cycles) ==
    IF neighbors = <<>> THEN [visited |-> visited, cycles |-> cycles]
    ELSE LET neighbor_idx == Head(neighbors)
         IN  IF neighbor_idx \in Range(path)
             THEN LET cycle_start == CHOOSE k \in 1..Len(path) : path[k] = neighbor_idx
                      cycle_vertices == SubSeq(path, cycle_start, Len(path)) \o <<neighbor_idx>>
                  IN  DfsNeighbors(Tail(neighbors), visited, path,
                                   Append(cycles, NodeIdsOf(cycle_vertices)))
             ELSE IF neighbor_idx \notin visited
                  THEN LET sub == _dfs_find_cycles(neighbor_idx, visited, path)
                       IN  DfsNeighbors(Tail(neighbors), sub.visited, path,
                                        cycles \o sub.cycles)
                  ELSE DfsNeighbors(Tail(neighbors), visited, path, cycles)

RECURSIVE CyclesFrom(_, _, _)
\* The loop of find_circular_dependencies over the vertices from vertex_idx on.
CyclesFrom(vertex_idx, visited, cycles) ==
    IF vertex_idx > Len(vertex_to_node_id) THEN cycles
    ELSE IF vertex_idx \in visited
         THEN CyclesFrom(vertex_idx + 1, visited, cycles)
         ELSE LET sub == _dfs_find_cycles(vertex_idx, visited, <<>>)
              IN  CyclesFrom(vertex_idx + 1, sub.visited, cycles \o sub.cycles)

\* A search that stops at the first vertex it starts from.
find_circular_dependencies_NoDescent ==
    IF Len(vertex_to_node_id) = 0 THEN <<>>
    ELSE DfsNeighbors(<<>>, {1}, <<1>>, <<>>).cycles

\* DependencyGraph.find_circular_dependencies.
find_circular_dependencies == CyclesFrom(1, {}, <<>>)

\* DependencyGraphProcessor.process_packages: the payload of every node id,
\* and the cycles of the graph.
ProcessPackages ==
    /\ grPc = "built"
    /\ dependency_data' =
           [node_id \in Range(vertex_to_node_id) |-> get_dependency_info(node_id)]
    /\ circular_dependencies' = find_circular_dependencies
    /\ grPc' = "processed"
    /\ UNCHANGED <<grRaw, grPos, vertex_to_node_id, node_id_to_vertex,
                   package_mapping, edges, _out_adj, _in_adj>>
    /\ UNCHANGED notGraph

NextGraph ==
    \/ AddVertex
    \/ StartSecondPass
    \/ AddEdges
    \/ BuildAdjacency
    \/ ProcessPackages

SpecGraph == InitGraph /\ [][NextGraph]_vars

Successors(S) == {e[2] : e \in {x \in Range(edges) : x[1] \in S}}

RECURSIVE Closure(_)
Closure(S) ==
    LET N == S \cup Successors(S)
    IN  IF N = S THEN S ELSE Closure(N)

\* The vertices reachable from v over one or more edges of the graph.
ReachableFrom(v) == Closure(Successors({v}))

\* C11 (P3): for every package p of the per-node payload,
\* direct_dependencies(p) is a subset of all_dependencies(p), and p is in
\* all_dependencies(p) only if p's vertex lies on a directed cycle of the
\* dependency graph.
C11_DirectWithinAllSelfOnlyOnCycle ==
    grPc = "processed" =>
        \A p \in DOMAIN dependency_data :
            /\ Range(dependency_data[p].direct_dependencies)
                   \subseteq Range(dependency_data[p].all_dependencies)
            /\ p \in Range(dependency_data[p].all_dependencies)
                   => node_id_to_vertex[p] \in ReachableFrom(node_id_to_vertex[p])

Injective(f) == \A x, y \in DOMAIN f : f[x] = f[y] => x = y

\* C12 (I3): after graph construction node ids are unique (one vertex per
\* distinct node id, the node-id and vertex maps mutually inverse) and the
\* drv_path -> vertex mapping is injective.
C12_NodeIdsUnique ==
    grPc \in {"pass2", "built", "processed"} =>
        /\ Injective(vertex_to_node_id)
        /\ \A id \in DOMAIN node_id_to_vertex :
               vertex_to_node_id[node_id_to_vertex[id]] = id
        /\ \A v \in DOMAIN vertex_to_node_id :
               node_id_to_vertex[vertex_to_node_id[v]] = v
        /\ Injective(package_mapping)

\* C13: after graph construction there is at most one edge per ordered pair
\* of nodes and no self-loop: no node lists itself as a direct dependency,
\* and no node id appears twice in a direct_dependencies or
\* direct_dependents list.
C13_EdgesDeduplicatedNoSelfLoops ==
    grPc = "processed" =>
        /\ Injective([k \in DOMAIN edges |->
                         <<vertex_to_node_id[edges[k][1]],
                           vertex_to_node_id[edges[k][2]]>>])
        /\ \A e \in Range(edges) : e[1] # e[2]
        /\ \A p \in DOMAIN dependency_data :
               /\ p \notin Range(dependency_data[p].direct_dependencies)
               /\ Injective(dependency_data[p].direct_dependencies)
               /\ Injective(dependency_data[p].direct_dependents)

\* ------------------------------------------------------------------------
\* Embedding generator run (nixpkgs-indexer/src/embedding_generator.py)
\* ------------------------------------------------------------------------

MaxPackages == 2

\* vector: Vector(256) in the schema of the packages table
SchemaDim == 256

\* Values of BEDROCK_OUTPUT_DIMENSIONS: the default and one other.
Dimensions == {SchemaDim, 2 * SchemaDim}

PackageIds == 1..MaxPackages

\* Values of the content_hash column; the writers store 0 for a package
\* without one.
HashValues == {0, 1, 2}

\* A vector is its length, where it came from and the package whose text
\* it embeds.
ZeroVector == [len |-> SchemaDim, gen |-> "zero", of |-> 0]
NoVector == [len |-> 0, gen |-> "none", of |-> 0]
PrevVector(p, n) == [len |-> n, gen |-> "prev", of |-> p]
NewVector(p) == [len |-> output_dimensions, gen |-> "new", of |-> p]

\* Does table.update store this vector.
Accepts(vector) == ~schema_enforced \/ vector.len = SchemaDim

\* Rows a writer of this repository produces: no embedding yet.
FreshRows == [content_hash : HashValues, vector : {ZeroVector},
              has_embedding : {FALSE}]

PrevRows(p, enforced) ==
    FreshRows \cup
    [content_hash : HashValues,
     vector : {PrevVector(p, n) :
                  n \in IF enforced THEN {SchemaDim} ELSE Dimensions},
     has_embedding : {TRUE}]

\* The tables over some of the package ids, rowsOf[p] being the rows
\* package p may have.
Tables(rowsOf) ==
    UNION {{t \in [S -> UNION {rowsOf[p] : p \in S}] :
               \A p \in S : t[p] \in rowsOf[p]} : S \in SUBSET PackageIds}

StartIndex ==
    /\ ixPc = "start"
    /\ force_rebuild \in BOOLEAN
    /\ output_dimensions \in Dimensions
    /\ schema_enforced \in BOOLEAN
    /\ lanceTable \in Tables([p \in PackageIds |-> FreshRows])
    /\ prevTable \in Tables([p \in PackageIds |-> PrevRows(p, schema_enforced)])
    /\ candidates = <<>>
    /\ requested = {}

InitIndex == StartIndex /\ IdleShard /\ IdleSql /\ IdleStore /\ IdleEmbed /\ IdleGraph /\ IdleRun /\ IdleExtract /\ IdleBedrock /\ IdleWait

\* table.update(where package_id = ..., values = {vector, has_embedding: True})
UpdateVector(table, package_id, vector) ==
    IF package_id \in DOMAIN table
    THEN [table EXCEPT ![package_id] =
              [@ EXCEPT !.vector = vector, !.has_embedding = TRUE]]
    ELSE table

\* Every row of the previous artifact that has an embedding overwrites the
\* row of the same package_id; a refused update is logged and skipped.
_load_previous_embeddings_and_hashes(cur, prev) ==
    [p \in DOMAIN cur |->
        IF /\ p \in DOMAIN prev
           /\ prev[p].has_embedding
           /\ prev[p].vector.len > 0
           /\ Accepts(prev[p].vector)
        THEN UpdateVector(cur, p, prev[p].vector)[p]
        ELSE cur[p]]

\* run, up to the previous artifact: the embeddings of the previous artifact
\* are loaded unless force_rebuild is set or there is no previous artifact.
LoadPrevious ==
    /\ ixPc = "start"
    /\ lanceTable' =
           IF ~force_rebuild /\ prevTable # <<>>
           THEN _load_previous_embeddings_and_hashes(lanceTable, prevTable)
           ELSE lanceTable
    /\ ixPc' = "loaded"
    /\ UNCHANGED <<force_rebuild, output_dimensions, schema_enforced, prevTable,
                   candidates, requested>>
    /\ UNCHANGED notIndex

fetch_packages_to_embed(table) ==
    SetToSortedSeq({p \in DOMAIN table : force_rebuild \/ ~table[p].has_embedding})

\* run: the candidates are fetched; with none of them the run ends.
FetchCandidates ==
    /\ ixPc = "loaded"
    /\ candidates' = fetch_packages_to_embed(lanceTable)
    /\ ixPc' = IF candidates' = <<>> THEN "done" ELSE "fetched"
    /\ UNCHANGED <<force_rebuild, output_dimensions, schema_enforced, prevTable,
                   lanceTable, requested>>
    /\ UNCHANGED notIndex

RECURSIVE insert_embeddings(_, _)
insert_embeddings(table, rows) ==
    IF rows = <<>> THEN [table |-> table, raised |-> FALSE]
    ELSE IF ~Accepts(Head(rows).vector) THEN [table |-> table, raised |-> TRUE]
    ELSE insert_embeddings(
             UpdateVector(table, Head(rows).package_id, Head(rows).vector),
             Tail(rows))

\* Rows of the current table whose vector process_packages_batch may reuse
\* for a package with this content_hash.
ReuseSources(table, content_hash) ==
    IF content_hash = 0 THEN {}
    ELSE {q \in DOMAIN table : /\ table[q].content_hash = content_hash
                               /\ table[q].has_embedding
                               /\ table[q].vector.len > 0}

\* embeddings_dict.get(pkg_id, [])
EmbeddingFor(p, succeeded) == IF p \in succeeded THEN NewVector(p) ELSE NoVector

\* process_packages_batch on the candidates, all in one batch.  pick is the
\* row each search returned, outcome the answer of the batch job.
ProcessPackagesBatchOf(pick, raises, succeeded) ==
    LET can_reuse == SelectSeq(candidates,
                        LAMBDA p : ReuseSources(lanceTable, lanceTable[p].content_hash) # {})
        need == SelectSeq(candidates,
                        LAMBDA p : ReuseSources(lanceTable, lanceTable[p].content_hash) = {})
        reuse_rows == [k \in 1..Len(can_reuse) |->
                          [package_id |-> can_reuse[k],
                           vector |-> lanceTable[pick[can_reuse[k]]].vector]]
        reused == insert_embeddings(lanceTable, reuse_rows)
        new_rows == [k \in 1..Len(need) |->
                        [package_id |-> need[k],
                         vector |-> EmbeddingFor(need[k], succeeded)]]
        inserted == insert_embeddings(reused.table, new_rows)
    IN  IF reused.raised
        THEN /\ lanceTable' = reused.table
             /\ requested' = requested
             /\ ixPc' = "done"
        ELSE IF need = <<>>
        THEN /\ lanceTable' = reused.table
             /\ requested' = requested
             /\ ixPc' = "done"
        ELSE /\ requested' = requested \cup Range(need)
             /\ lanceTable' = IF raises THEN reused.table ELSE inserted.table
             /\ ixPc' = "done"

ProcessBatch ==
    /\ ixPc = "fetched"
    /\ \E pick \in [DOMAIN lanceTable -> DOMAIN lanceTable],
          raises \in BOOLEAN, succeeded \in SUBSET Range(candidates) :
          /\ \A p \in DOMAIN lanceTable :
                LET src == ReuseSources(lanceTable, lanceTable[p].content_hash)
                IN  IF src = {} THEN pick[p] = p ELSE pick[p] \in src
          /\ raises => succeeded = {}
          /\ ProcessPackagesBatchOf(pick, raises, succeeded)
    /\ UNCHANGED <<force_rebuild, output_dimensions, schema_enforced, prevTable,
                   candidates>>
    /\ UNCHANGED notIndex

NextIndex ==
    \/ LoadPrevious
    \/ FetchCandidates
    \/ ProcessBatch

SpecIndex == InitIndex /\ [][NextIndex]_vars

\* A package took a vector over without a call of the remote model.
TookOver(p) == lanceTable[p].has_embedding /\ p \notin requested

\* Rows of the previous artifact whose stored content_hash is the package's.
PriorMatches(p) ==
    {q \in DOMAIN prevTable : /\ prevTable[q].has_embedding
                              /\ prevTable[q].content_hash = lanceTable[p].content_hash}

\* C14 (incremental reuse): at the end of an incremental run a package has
\* taken over a vector of the previous artifact, without a remote call,
\* exactly when its content_hash equals the content_hash stored with that
\* vector; the vector it holds is then that prior vector, and a package
\* whose content_hash matches no stored one was sent for a new vector.
C14_ReuseIffHashMatches ==
    (ixPc = "done" /\ ~force_rebuild) =>
        \A p \in DOMAIN lanceTable :
            /\ TookOver(p) <=> PriorMatches(p) # {}
            /\ TookOver(p) =>
                   lanceTable[p].vector \in {prevTable[q].vector : q \in PriorMatches(p)}
            /\ PriorMatches(p) = {} => p \in requested

\* C15 (P6/I5): every vector stored for a package marked as having an
\* embedding has length equal to the configured output dimension.
C15_StoredVectorsHaveOutputDimension ==
    \A p \in DOMAIN lanceTable :
        lanceTable[p].has_embedding =>
            lanceTable[p].vector.len = output_dimensions

\* ------------------------------------------------------------------------
\* Stage 2 run (nixpkgs-processor/src/index.py, s3_jsonl_reader.py)
\* ------------------------------------------------------------------------

MaxLines == 3
MaxFaults == 2

\* A line of the JSONL: the metadata object, a package record, a blank line
\* or a line that is not JSON.
LineKinds == {"meta", "pkg", "blank", "bad"}

\* The object-store operations of a run.
StoreOps == {"get_jsonl", "main_clear", "main_upload", "stats_put",
             "minified_clear", "minified_upload",
             "node_clear", "node_put", "index_put"}

RECURSIVE LStrip(_)
LStrip(lines) ==
    IF lines # <<>> /\ Head(lines) = "blank" THEN LStrip(Tail(lines)) ELSE lines

RECURSIVE RStrip(_)
RStrip(lines) ==
    IF lines # <<>> /\ lines[Len(lines)] = "blank"
    THEN RStrip(SubSeq(lines, 1, Len(lines) - 1))
    ELSE lines

\* content.strip().split('\n')
StripSplit(lines) == RStrip(LStrip(lines))

\* read_raw_jsonl: the records and whether a metadata line was found.
read_raw_jsonl(lines) ==
    LET ls == StripSplit(lines)
        isMeta(k) == k = 1 /\ ls[k] = "meta"
        keep == {k \in 1..Len(ls) : ls[k] \in {"meta", "pkg"} /\ ~isMeta(k)}
        order == SetToSortedSeq(keep)
    IN  [raw_packages |-> [i \in 1..Len(order) |-> ls[order[i]]],
         metadata |-> (ls # <<>> /\ ls[1] = "meta")]

\* The canonical packages DataProcessor makes of the records.
ProcessedPackages == SelectSeq(raw_packages, LAMBDA r : r = "pkg")

StartRun ==
    /\ runPc = "read"
    /\ jsonl \in UNION {[1..n -> LineKinds] : n \in 0..MaxLines}
    /\ faults \in {F \in SUBSET StoreOps : Cardinality(F) <= MaxFaults}
    /\ enable_node_s3 \in BOOLEAN
    /\ clear_existing \in BOOLEAN
    /\ raw_packages = <<>>
    /\ run_metadata = FALSE
    /\ attempted = {}
    /\ artifacts = {}
    /\ node_errors = 0
    /\ exit_code = -1

InitRun == StartRun /\ IdleShard /\ IdleSql /\ IdleStore /\ IdleEmbed /\ IdleGraph /\ IdleIndex /\ IdleExtract /\ IdleBedrock /\ IdleWait

\* except Exception: return 1
Fatal ==
    /\ exit_code' = 1
    /\ runPc' = "exited"

\* if not raw_packages: return 1
EmptyInputExit(raw) == IF raw = <<>> THEN 1 ELSE -1

\* Phase 1: the JSONL is read.
ReadJsonl ==
    /\ runPc = "read"
    /\ attempted' = attempted \cup {"get_jsonl"}
    /\ IF "get_jsonl" \in faults
       THEN Fatal /\ UNCHANGED <<raw_packages, run_metadata>>
       ELSE LET r == read_raw_jsonl(jsonl)
            IN  /\ raw_packages' = r.raw_packages
                /\ run_metadata' = r.metadata
                /\ exit_code' = EmptyInputExit(r.raw_packages)
                /\ runPc' = IF exit_code' = -1 THEN "main" ELSE "exited"
    /\ UNCHANGED <<jsonl, faults, enable_node_s3, clear_existing, artifacts,
                   node_errors>>
    /\ UNCHANGED notRun

\* LanceDBWriter._upload_to_s3: a failed clear is logged, a failed upload raises.
\* Phase 2: the main artifact and the stats are written.
WriteMain ==
    /\ runPc = "main"
    /\ IF "main_upload" \in faults
       THEN /\ attempted' = attempted \cup {"main_clear", "main_upload"}
            /\ Fatal
            /\ UNCHANGED artifacts
       ELSE IF "stats_put" \in faults
       THEN /\ attempted' = attempted \cup {"main_clear", "main_upload", "stats_put"}
            /\ artifacts' = artifacts \cup {"main"}
            /\ Fatal
       ELSE /\ attempted' = attempted \cup {"main_clear", "main_upload", "stats_put"}
            /\ artifacts' = artifacts \cup {"main", "stats"}
            /\ runPc' = "minified"
            /\ UNCHANGED exit_code
    /\ UNCHANGED <<jsonl, faults, enable_node_s3, clear_existing, raw_packages,
                   run_metadata, node_errors>>
    /\ UNCHANGED notRun

\* Phase 4: the minified artifact is written.
WriteMinified ==
    /\ runPc = "minified"
    /\ attempted' = attempted \cup {"minified_clear", "minified_upload"}
    /\ IF "minified_upload" \in faults
       THEN Fatal /\ UNCHANGED artifacts
       ELSE /\ artifacts' = artifacts \cup {"minified"}
            /\ runPc' = "nodes"
            /\ UNCHANGED exit_code
    /\ UNCHANGED <<jsonl, faults, enable_node_s3, clear_existing, raw_packages,
                   run_metadata, node_errors>>
    /\ UNCHANGED notRun

\* Phase 5: write_nodes and create_index_file.  The node writer logs a
\* failed clear, put_object or index upload (and counts a failed put_object)
\* and goes on.
WriteNodes ==
    /\ runPc = "nodes"
    /\ IF enable_node_s3 /\ ProcessedPackages # <<>>
       THEN LET ops == {"node_put", "index_put"}
                           \cup IF clear_existing THEN {"node_clear"} ELSE {}
            IN  /\ attempted' = attempted \cup ops
                /\ node_errors' = IF "node_put" \in faults
                                  THEN Len(ProcessedPackages) ELSE 0
                /\ artifacts' = artifacts
                       \cup (IF "node_put" \in faults THEN {} ELSE {"nodes"})
                       \cup (IF "index_put" \in faults THEN {} ELSE {"index"})
                /\ runPc' = "finish"
                /\ UNCHANGED exit_code
       ELSE /\ runPc' = "finish"
            /\ UNCHANGED <<attempted, artifacts, node_errors, exit_code>>
    /\ UNCHANGED <<jsonl, faults, enable_node_s3, clear_existing, raw_packages,
                   run_metadata>>
    /\ UNCHANGED notRun

\* return 0
Finish ==
    /\ runPc = "finish"
    /\ exit_code' = 0
    /\ runPc' = "exited"
    /\ UNCHANGED <<jsonl, faults, enable_node_s3, clear_existing, raw_packages,
                   run_metadata, attempted, artifacts, node_errors>>
    /\ UNCHANGED notRun

NextRun ==
    \/ ReadJsonl
    \/ WriteMain
    \/ WriteMinified
    \/ WriteNodes
    \/ Finish

SpecRun == InitRun /\ [][NextRun]_vars

\* C16: an object-store operation that fails after its retries is fatal:
\* a run that called a failing operation (a node upload, the index upload
\* and the prefix clear included) ends with exit code 1, never with 0.
C16_StoreFailureIsFatal ==
    (runPc = "exited" /\ attempted \cap faults # {}) => exit_code = 1

\* The JSONL is empty or holds only the metadata line.
NoPackageLines == jsonl = <<>> \/ jsonl = <<"meta">>

\* C17: Stage 2 given an empty JSONL, or one with only the metadata line,
\* writes its (empty) artifacts and exits with code 0.
C17_EmptyInputExitsCleanly ==
    (runPc = "exited" /\ NoPackageLines /\ attempted \cap faults = {}) =>
        /\ exit_code = 0
        /\ raw_packages = <<>>
        /\ {"main", "minified"} \subseteq artifacts

\* ------------------------------------------------------------------------
\* Source acquisition and evaluation (nixpkgs-evaluator/src/nixpkgs_extractor.py,
\* metadata-generator/.../src/nixpkgs_extractor.py)
\* ------------------------------------------------------------------------

MaxOutputLines == 2

\* self.max_retries and self.retry_delay_seconds of the metadata generator
clone_max_retries == 3
retry_delay_seconds == 5

\* timeout= of the two git clone calls, in seconds
evaluator_clone_timeout == 1200
generator_clone_timeout == 300

Extractors == {"evaluator", "metadata-generator"}

\* What stderr of nix-eval-jobs holds: nothing, "marked as broken" or
\* "refusing to evaluate", "out of memory" or "double free or corruption",
\* or something else.
StderrKinds == {"none", "broken", "memory", "other"}

\* A line of the output file: a JSON record, a line that is not JSON, or a
\* blank line.
OutputLines == {"rec", "bad", "blank"}

CloneOutcomes == {"ok", "error", "timeout"}

\* Seconds a clone attempt takes.
CloneSeconds(outcome) ==
    IF outcome # "timeout" THEN 1
    ELSE IF impl = "evaluator" THEN evaluator_clone_timeout
    ELSE generator_clone_timeout

\* Attempts the extractor makes: the loop of _clone_nixpkgs, the single
\* subprocess.run of _setup_nixpkgs_repo.
CloneAttempts == IF impl = "metadata-generator" THEN clone_max_retries ELSE 1

StartExtract ==
    /\ evPc = "clone"
    /\ impl \in Extractors
    /\ evClock = 0
    /\ cloneLog = <<>>
    /\ proc \in [returncode : {0, 1}, stderr : StderrKinds,
                 output : UNION {[1..n -> OutputLines] : n \in 0..MaxOutputLines}]
    /\ evPackages = <<>>

InitExtract == StartExtract /\ IdleShard /\ IdleSql /\ IdleStore /\ IdleEmbed /\ IdleGraph /\ IdleIndex /\ IdleRun /\ IdleBedrock /\ IdleWait

\* One subprocess.run of git clone and what the extractor does with its end.
CloneAttempt ==
    /\ evPc = "clone"
    /\ \E outcome \in CloneOutcomes :
          /\ evClock' = evClock + CloneSeconds(outcome)
          /\ cloneLog' = Append(cloneLog, [start |-> evClock, end |-> evClock',
                                           outcome |-> outcome])
          /\ evPc' = IF outcome = "ok"
                     THEN (IF impl = "evaluator" THEN "extract" ELSE "done")
                     ELSE IF Len(cloneLog') < CloneAttempts THEN "pause"
                     ELSE "clone_failed"
    /\ UNCHANGED <<impl, proc, evPackages>>
    /\ UNCHANGED notExtract

\* time.sleep(self.retry_delay_seconds)
RetryPause ==
    /\ evPc = "pause"
    /\ evClock' = evClock + retry_delay_seconds
    /\ evPc' = "clone"
    /\ UNCHANGED <<impl, cloneLog, proc, evPackages>>
    /\ UNCHANGED notExtract

_parse_nix_eval_jobs_output(lines) == SelectSeq(lines, LAMBDA l : l = "rec")

\* The test under which a nonzero exit is answered with the parsed records.
Recoverable(p) == p.stderr = "broken" /\ p.output # <<>>

\* _extract_with_nix_eval_jobs: the records, or "raise".
_extract_with_nix_eval_jobs(p) ==
    LET parsed == _parse_nix_eval_jobs_output(p.output)
    IN  IF p.returncode = 0 THEN [raised |-> FALSE, packages |-> parsed]
        ELSE IF Recoverable(p) /\ parsed # <<>>
             THEN [raised |-> FALSE, packages |-> parsed]
             ELSE [raised |-> TRUE, packages |-> <<>>]

Extract ==
    /\ evPc = "extract"
    /\ LET r == _extract_with_nix_eval_jobs(proc)
       IN  /\ evPackages' = r.packages
           /\ evPc' = IF r.raised THEN "extract_failed" ELSE "done"
    /\ UNCHANGED <<impl, evClock, cloneLog, proc>>
    /\ UNCHANGED notExtract

NextExtract ==
    \/ CloneAttempt
    \/ RetryPause
    \/ Extract

SpecExtract == InitExtract /\ [][NextExtract]_vars

\* C18 (direct mode, partial output): when the evaluator exits nonzero the
\* run proceeds with the records written if and only if the output file is
\* non-empty, whatever stderr says; it fails only when the file is empty.
C18_PartialOutputRule ==
    (evPc \in {"done", "extract_failed"} /\ impl = "evaluator"
                                         /\ proc.returncode # 0) =>
        /\ evPc = "done" <=> proc.output # <<>>
        /\ evPc = "done" => evPackages = _parse_nix_eval_jobs_output(proc.output)

\* C19 (source acquisition): a clone that fails with a process error is
\* retried, up to 3 attempts in all, with a pause of 5 seconds between
\* attempts; the clone is given up only after the last attempt fails or on
\* a timeout, and a timeout is never followed by another attempt.
C19_CloneRetries ==
    /\ Len(cloneLog) <= clone_max_retries
    /\ \A k \in 1..Len(cloneLog) :
          /\ k > 1 => /\ cloneLog[k - 1].outcome = "error"
                      /\ cloneLog[k].start = cloneLog[k - 1].end + retry_delay_seconds
          /\ (k = Len(cloneLog) /\ cloneLog[k].outcome = "error"
                                /\ k < clone_max_retries)
                 => evPc \in {"pause", "clone"}
          /\ (k = Len(cloneLog) /\ cloneLog[k].outcome = "timeout")
                 => evPc = "clone_failed"
    /\ evPc = "clone_failed" =>
          \/ cloneLog[Len(cloneLog)].outcome = "timeout"
          \/ Len(cloneLog) = clone_max_retries

\* ------------------------------------------------------------------------
\* Scenario S4: a batch of 4 texts under requests_per_minute = 2
\* ------------------------------------------------------------------------

S4Texts == 4

\* The batch of the scenario, with the service answering every request;
\* max_concurrent_requests is the default of 10 or MaxConcurrent.
StartS4 ==
    /\ texts \in [1..S4Texts -> TextLens]
    /\ max_concurrent_requests \in {MaxConcurrent, 10}
    /\ requests_per_minute = 2
    /\ tokens_per_minute = 1000000
    /\ clock = 0
    /\ batchPc = "called"
    /\ wpc = [w \in Workers |-> "created"]
    /\ wattempt = [w \in Workers |-> 0]
    /\ wnow = [w \in Workers |-> 0]
    /\ wwake = [w \in Workers |-> 0]
    /\ _sem = max_concurrent_requests
    /\ semQ = <<>>
    /\ _rate_lock = 0
    /\ lockQ = <<>>
    /\ _req_times = <<>>
    /\ _tok_times = <<>>
    /\ _throttle_streak = 0
    /\ results = <<>>
    /\ completion = <<>>
    /\ sentLog = <<>>
    /\ reassembled = FALSE
    /\ embeddings = <<>>

InitS4 == StartS4 /\ IdleShard /\ IdleSql /\ IdleStore /\ IdleGraph /\ IdleIndex /\ IdleRun /\ IdleExtract /\ IdleBedrock /\ IdleWait

NextS4 ==
    \/ CallBatch
    \/ \E w \in Workers : WorkerStart(w)
    \/ \E w \in Workers : SemGranted(w)
    \/ \E w \in Workers : LockGranted(w)
    \/ \E w \in Workers : LimiterWake(w)
    \/ \E w \in Workers : RespondOk(w)
    \/ GatherDone
    \/ ReturnResults
    \/ Tick

\* The event loop runs a task that can run, and time passes otherwise.
SpecS4 == InitS4 /\ [][NextS4]_vars /\ WF_vars(NextS4)

\* The workers whose request has been issued.
Issued == {w \in Workers : wpc[w] \in {"inflight", "done"}}

S4FirstTwoImmediately == clock > 0 => Cardinality(Issued) >= 2

S4ThirdAfterWindow == Cardinality(Issued) >= 3 => clock >= Window

S4AllSucceeded ==
    /\ batchPc = "returned"
    /\ results = [w \in Workers |-> Embedding(texts[w])]

\* C20 (scenario S4): for a batch of 4 texts with requests_per_minute = 2 and
\* tokens_per_minute = 1,000,000 the first two requests are issued before
\* any time passes, a third is issued no earlier than 60 s after the first,
\* and eventually the batch returns with all 4 embeddings.
C20_ScenarioS4 ==
    /\ [](S4FirstTwoImmediately /\ S4ThirdAfterWindow)
    /\ <>S4AllSucceeded

C20_Witness ==
    /\ Len(texts) = S4Texts
    /\ requests_per_minute = 2
    /\ S4AllSucceeded
    /\ clock >= Window
\* ---------------------------------------------------------------------
\* The individual embedding client (bedrock_client.py,
\* BedrockIndividualClient): one caller embeds its texts one after the
\* other; before each request it waits for the request window, the token
\* window and the minimum gap.  Times are in tenths of a second, the size
\* of the buffer the waits add.

MaxBdTexts == 3
MaxBdLatency == 250
BdTicksPerSecond == 10

BdWindow == 60 * BdTicksPerSecond

\* Configurations and inputs small enough for the windows to fill.
BdRpms == {2, 3}
BdTpms == {2, 4}
BdEstimates == {1, 2}
BdLatencies == {1, MaxBdLatency}

\* min_delay = 60.0 / self.max_rpm
min_delay == BdWindow \div max_rpm

\* The tracked requests and tokens younger than one minute.
_clean_old_requests(now, reqs, toks) ==
    LET cutoff_time == now - BdWindow
    IN  [requests |-> SelectSeq(reqs, LAMBDA t : t > cutoff_time),
         tokens   |-> SelectSeq(toks, LAMBDA e : e[1] > cutoff_time)]

\* The clock and the tracked lists when _wait_for_rate_limit returns.
\* current_time is read once, on entry, and used by all three waits.
_wait_for_rate_limit(now, reqs, toks, last, estimated_tokens) ==
    LET current_time == now
        c0 == _clean_old_requests(now, reqs, toks)
        oldest_request == CHOOSE t \in Range(c0.requests) : \A u \in Range(c0.requests) : t <= u
        rpm_wait == IF Len(c0.requests) >= max_rpm
                    THEN Max(0, BdWindow - (current_time - oldest_request) + 1)
                    ELSE 0
        t1 == now + rpm_wait
        c1 == IF rpm_wait > 0 THEN _clean_old_requests(t1, c0.requests, c0.tokens) ELSE c0
        oldest_token_time == CHOOSE t \in {e[1] : e \in Range(c1.tokens)} : \A e \in Range(c1.tokens) : t <= e[1]
        tok_wait == IF token_sum(c1.tokens) + estimated_tokens > max_tokens_per_minute /\ c1.tokens # <<>>
                    THEN Max(0, BdWindow - (current_time - oldest_token_time) + 1)
                    ELSE 0
        t2 == t1 + tok_wait
        c2 == IF tok_wait > 0 THEN _clean_old_requests(t2, c1.requests, c1.tokens) ELSE c1
        time_since_last == current_time - last
        gap_wait == IF time_since_last < min_delay THEN min_delay - time_since_last ELSE 0
    IN  [clock |-> t2 + gap_wait, requests |-> c2.requests, tokens |-> c2.tokens]

\* BedrockIndividualClient() and the entry of generate_embeddings_batch:
\* nothing tracked yet, last_request_time = 0, the clock far from 0.
StartBedrock ==
    /\ bdPc = "idle"
    /\ bdTexts = <<>>
    /\ bdPos = 0
    /\ bdClock = 2 * BdWindow
    /\ max_rpm \in BdRpms
    /\ max_tokens_per_minute \in BdTpms
    /\ requests_in_minute = <<>>
    /\ tokens_in_minute = <<>>
    /\ last_request_time = 0
    /\ bdIssued = <<>>

InitBedrock == StartBedrock /\ IdleShard /\ IdleSql /\ IdleStore /\ IdleEmbed /\ IdleGraph /\ IdleIndex /\ IdleRun /\ IdleExtract /\ IdleWait

\* generate_embeddings_batch(texts_with_ids), texts not empty.
BdCall ==
    /\ bdPc = "idle"
    /\ \E n \in 1..MaxBdTexts : bdTexts' \in [1..n -> BdEstimates]
    /\ bdPc' = "loop"
    /\ UNCHANGED <<bdPos, bdClock, max_rpm, max_tokens_per_minute, requests_in_minute, tokens_in_minute, last_request_time, bdIssued>>
    /\ UNCHANGED notBedrock

\* One turn of the loop: generate_embedding(text).  The request is
\* tracked only when invoke_model returned an embedding; an exception is
\* caught by the loop, which goes on to the next text.
generate_embedding ==
    /\ bdPc = "loop"
    /\ bdPos < Len(bdTexts)
    /\ \E latency \in BdLatencies, ok \in BOOLEAN :
        LET estimated_tokens == bdTexts[bdPos + 1]
            w == _wait_for_rate_limit(bdClock, requests_in_minute, tokens_in_minute, last_request_time, estimated_tokens)
            current_time == w.clock
        IN  /\ bdIssued' = Append(bdIssued, [at |-> current_time, ok |-> ok])
            /\ bdClock' = current_time + latency
            /\ requests_in_minute' = IF ok THEN Append(w.requests, current_time) ELSE w.requests
            /\ tokens_in_minute' = IF ok THEN Append(w.tokens, <<current_time, estimated_tokens>>) ELSE w.tokens
            /\ last_request_time' = IF ok THEN current_time ELSE last_request_time
    /\ bdPos' = bdPos + 1
    /\ UNCHANGED <<bdPc, bdTexts, max_rpm, max_tokens_per_minute>>
    /\ UNCHANGED notBedrock

\* The loop is over: generate_embeddings_batch returns its results.
BdReturn ==
    /\ bdPc = "loop"
    /\ bdPos = Len(bdTexts)
    /\ bdPc' = "done"
    /\ UNCHANGED <<bdTexts, bdPos, bdClock, max_rpm, max_tokens_per_minute, requests_in_minute, tokens_in_minute, last_request_time, bdIssued>>
    /\ UNCHANGED notBedrock

NextBedrock ==
    \/ BdCall
    \/ generate_embedding
    \/ BdReturn

SpecBedrock == InitBedrock /\ [][NextBedrock]_vars

\* C21: any two consecutive requests of the caller are at least
\* 60/max_rpm seconds apart, whether the earlier one succeeded or failed
\* and whether or not a wait for window capacity lay between them.
C21_MinGapBetweenRequests ==
    \A i \in 1..(Len(bdIssued) - 1) :
        bdIssued[i + 1].at - bdIssued[i].at >= min_delay
\* C22: whenever the evaluator is invoked for a shard, the stack-size limit
\* in effect is 16 MiB for a normal shard and 32 MiB for a memory-intensive
\* shard, whatever shards were processed before it in the run.
C22_StackLimitPerShard ==
    \A i \in 1..Len(evalLog) :
        evalLog[i].stack = IF is_memory_intensive_shard(evalLog[i].shard) THEN 32 ELSE 16
\* C23: every shard is evaluated with the budget of its class: a grouped
\* shard with a 3-minute timeout, a large shard with a 10-minute timeout, a
\* large-problematic shard with a 15-minute timeout, depth capped at 5 and
\* alias-following disabled.
C23_BudgetOfClass ==
    \A i \in 1..Len(evalLog) :
        LET c == evalLog[i]
        IN  /\ ShardTable[c.shard].prefix = "byname_group_" => c.timeout = 180
            /\ ShardClass(c.shard) = "large" => c.timeout = 600
            /\ ShardClass(c.shard) = "large-problematic" =>
                  /\ c.timeout = 900
                  /\ c.depth <= 5
                  /\ ~c.aliases
\* ---------------------------------------------------------------------
\* Waiting for a batch embedding job (bedrock_client.py,
\* BedrockBatchClient.wait_for_job_completion): poll the job status until
\* the job ends or the wait has lasted too long.

poll_interval == 60
max_wait_time == 7200

\* The model stops polling at this time.
MaxPollClock == 7440

\* What one get_model_invocation_job call can give: a status, or an
\* exception of the client ("error").
JobStatuses == {"Submitted", "InProgress", "Completed", "Failed", "Stopping", "Stopped"}
PollOutcomes == JobStatuses \cup {"error"}

StartWait ==
    /\ wjPc = "poll"
    /\ wjClock = 0
    /\ start_time = 0
    /\ wjResult = "none"

InitWait == StartWait /\ IdleShard /\ IdleSql /\ IdleStore /\ IdleEmbed /\ IdleGraph /\ IdleIndex /\ IdleRun /\ IdleExtract /\ IdleBedrock

\* How one turn of the loop ends for a poll outcome at time `now`:
\* "returned", "raised" with what, or "sleep" for another turn.  The
\* elapsed time is looked at only after a status was read.
PollStep(outcome, now) ==
    IF outcome = "Completed" THEN [pc |-> "returned", result |-> "Completed"]
    ELSE IF outcome \in {"Failed", "Stopped", "Stopping"} THEN [pc |-> "raised", result |-> "RuntimeError"]
    ELSE IF outcome = "error" THEN [pc |-> "poll", result |-> "none"]
    ELSE IF now - start_time > max_wait_time THEN [pc |-> "raised", result |-> "TimeoutError"]
    ELSE [pc |-> "poll", result |-> "none"]

\* One turn of the `while True` loop: the status call, then the return,
\* the raise, or time.sleep(poll_interval).
wait_for_job_completion ==
    /\ wjPc = "poll"
    /\ wjClock <= MaxPollClock
    /\ \E outcome \in PollOutcomes :
        LET r == PollStep(outcome, wjClock)
        IN  /\ wjPc' = r.pc
            /\ wjResult' = r.result
            /\ wjClock' = IF r.pc = "poll" THEN wjClock + poll_interval ELSE wjClock
    /\ UNCHANGED start_time
    /\ UNCHANGED notWait

NextWait == wait_for_job_completion

SpecWait == InitWait /\ [][NextWait]_vars

\* C24: waiting for a batch job ends, by a return or an exception, no
\* later than the 2-hour ceiling plus one poll interval after it began,
\* whatever the job reports and even when the status calls keep failing.
C24_WaitEndsByCeiling ==
    wjClock - start_time <= max_wait_time + poll_interval
\* C25: clearing a prefix removes every object under it however many there
\* are (more than one page of the listing included): once a clear is over
\* whose delete calls all succeeded, no object of the previous artifact is
\* left, and no delete call carried more keys than the limit.
C25_ClearRemovesEverything ==
    /\ \A i \in 1..Len(deleteLog) : deleteLog[i].keys <= DeleteBatchLimit
    /\ ( /\ storeJob \in {"nodes", "lance"}
         /\ clearFirst
         /\ storePc \notin {"start", "clear"}
         /\ \A i \in 1..Len(deleteLog) : deleteLog[i].ok )
          => \A k \in DOMAIN store : store[k] # "old"
\* C26: after a node upload that ended without upload errors, every
\* package with a node id has its own object at <prefix>/<node_id>.json.br
\* holding that package's data; two distinct packages never share or
\* overwrite one object, whatever the interleaving of the upload workers.
C26_OneObjectPerPackage ==
    (storeJob = "nodes" /\ storePc \in {"index", "done"} /\ uploadStats.errors = 0)
        => \A i \in 1..Len(Prepared) :
              /\ store[Prepared[i].node] = "new"
              /\ nodeHolder[Prepared[i].node] = Prepared[i].package_id
\* C27: building the minified database from the main database stores one
\* row in packages_kv for every package of the main database, keyed by
\* that package's package_id, so that COUNT(packages_kv) equals
\* COUNT(packages).
C27_OneKvRowPerPackage ==
    sqlPc = "uploaded" =>
        /\ DOMAIN packages_kv = DOMAIN packagesTbl
        /\ Cardinality(DOMAIN packages_kv) = Cardinality(DOMAIN packagesTbl)
\* C28 (I1): after the relational artifact is written, every row of
\* packages has at least one row in package_variations with the same
\* package_id.
C28_EveryPackageHasVariant ==
    sqlPc \notin {"raw", "processed"} =>
        \A id \in DOMAIN packagesTbl :
            \E v \in variationsTbl : v.package_id = id
\* C29 (P4/I4): whenever writing the relational artifact has completed and
\* is reported as successful, COUNT(packages_fts) equals COUNT(packages).
C29_FtsCountEqualsPackages ==
    sqlPc \notin {"raw", "processed"} =>
        Cardinality(packages_fts) = Cardinality(DOMAIN packagesTbl)
\* C30: compression verification.  A row is in packages_kv only if its
\* compressed bytes decompress with the dictionary to exactly the compact
\* JSON of its package; a mismatch ends the build as a failure at once (no
\* row is stored for it or after it) and a failed build is never uploaded.
C30_StoredRowsVerified ==
    /\ [](\A id \in DOMAIN packages_kv :
            /\ packages_kv[id].intact
            /\ \E k \in 1..Len(_extract_packages_from_main_db(packagesTbl)) :
                  LET pkg == _extract_packages_from_main_db(packagesTbl)[k]
                  IN  /\ Minified_package_id(pkg) = id
                      /\ packages_kv[id].zstd = _create_package_json(pkg))
    /\ [][sqlPc = "failed" => (sqlPc' = "failed" /\ packages_kv' = packages_kv)]_vars
    /\ [][(sqlPc = "minify" /\ sqlPc' = "failed") => packages_kv' = packages_kv]_vars
    /\ [][sqlPc' = "uploaded" => (sqlPc \in {"minify", "uploaded"} /\ minQueue = <<>>)]_vars

\* A row was stored and verified, and the package after it failed the
\* comparison: the build has ended with that package still in the queue.
C30_Witness ==
    /\ sqlPc = "failed"
    /\ minQueue # <<>>
    /\ DOMAIN packages_kv # {}
\* ------------------------------------------------------------------------
\* Variant merge over all the flags of a record
\* ------------------------------------------------------------------------

\* The records of one package on two systems, each with the platforms of its
\* system, with every flag free.
MergeUniverse ==
    { r \in [ attrPath  : {<<"hello", "x86_64-linux">>, <<"hello", "aarch64-darwin">>},
              name      : {<<"hello", "2.12">>},
              drvPath   : {"drv"},
              platforms : PlatformSets,
              broken    : BOOLEAN,
              unfree    : BOOLEAN,
              available : BOOLEAN,
              insecure    : BOOLEAN,
              unsupported : BOOLEAN,
              license     : {NoLicense},
              maintainers : {{}} ] :
          r.attrPath[2] \in r.platforms }

StartMerge ==
    /\ rawRecords \in UNION {[1..n -> MergeUniverse] : n \in 1..MaxRecords}
    /\ sqlPc = "raw"
    /\ packages = <<>>
    /\ packagesTbl = <<>>
    /\ variationsTbl = {}
    /\ architecturesTbl = {}
    /\ pkgArchTbl = {}
    /\ licensesTbl = {}
    /\ pkgLicTbl = {}
    /\ maintainersTbl = {}
    /\ pkgMaintTbl = {}
    /\ packages_fts = {}
    /\ minQueue = <<>>
    /\ packages_kv = <<>>

InitMerge == StartMerge /\ IdleShard /\ IdleStore /\ IdleEmbed /\ IdleGraph /\ IdleIndex /\ IdleRun /\ IdleExtract /\ IdleBedrock /\ IdleWait

\* The run up to the written main database.
NextMerge ==
    \/ ProcessRawPackages
    \/ ConvertPackagesToSqlite

SpecMerge == InitMerge /\ [][NextMerge]_vars

\* The processed records that share a package id.
VariantsOf(id) == {i \in 1..Len(packages) : _package_id(packages[i]) = id}

\* C31 (P2, merge): for every group of records sharing a package_id the
\* canonical package's platforms are the union of the variants' platforms
\* (in the row and in package_architectures), available is the AND of the
\* variants' available, and broken, unfree, insecure, unsupported are each
\* the OR over the variants.
C31_MergeUnionAndOr ==
    sqlPc \notin {"raw", "processed"} =>
        \A id \in DOMAIN packagesTbl :
            LET row == packagesTbl[id]
                grp == VariantsOf(id)
            IN  /\ grp # {}
                /\ row.platforms = UNION {packages[i].platforms : i \in grp}
                /\ {r[2] : r \in {x \in pkgArchTbl : x[1] = id}} = row.platforms
                /\ row.available   = (\A i \in grp : packages[i].available)
                /\ row.broken      = (\E i \in grp : packages[i].broken)
                /\ row.unfree      = (\E i \in grp : packages[i].unfree)
                /\ row.insecure    = (\E i \in grp : packages[i].insecure)
                /\ row.unsupported = (\E i \in grp : packages[i].unsupported)

\* A written database whose one package merges two variants that differ in
\* platforms and in which only the second carries the flags.
C31_Witness ==
    /\ sqlPc = "written"
    /\ Len(packages) = 2
    /\ Cardinality(DOMAIN packagesTbl) = 1
    /\ packages[1].platforms # packages[2].platforms
    /\ ~packages[1].insecure /\ packages[2].insecure
    /\ ~packages[1].unsupported /\ packages[2].unsupported
    /\ ~packages[1].broken /\ packages[2].broken
    /\ packages[1].available /\ ~packages[2].available
\* ------------------------------------------------------------------------
\* Scenario S3: a dependency cycle of three packages
\* ------------------------------------------------------------------------

\* The inputs of the scenario: three records, named a, b or c, each with at
\* most two of the three derivations as inputs.
S3Names == {<<"a", "2.12">>, <<"b", "2.12">>, <<"c", "2.12">>}

S3Raw ==
    {[i \in 1..3 |-> [name |-> r[i].name, drvPath |-> DrvOf(i),
                      inputDrvs |-> r[i].inputDrvs]] :
        r \in [1..3 -> [name : S3Names,
                        inputDrvs : {D \in SUBSET {DrvOf(1), DrvOf(2), DrvOf(3)} :
                                        Cardinality(D) <= 2}]]}

StartS3 ==
    /\ grRaw \in S3Raw
    /\ grPc = "pass1"
    /\ grPos = 0
    /\ vertex_to_node_id = <<>>
    /\ node_id_to_vertex = <<>>
    /\ package_mapping = <<>>
    /\ edges = <<>>
    /\ _out_adj = <<>>
    /\ _in_adj = <<>>
    /\ dependency_data = <<>>
    /\ circular_dependencies = <<>>

InitS3 == StartS3 /\ IdleShard /\ IdleSql /\ IdleStore /\ IdleEmbed /\ IdleIndex /\ IdleRun /\ IdleExtract /\ IdleBedrock /\ IdleWait

SpecS3 == InitS3 /\ [][NextGraph]_vars

\* Three records of three packages, each with the next one's derivation as
\* its only input and the last with the first's: A -> B -> C -> A in one of
\* the two directions the three records can be chained.
ScenarioS3 ==
    /\ Len(grRaw) = 3
    /\ \A i \in 1..3 : ~SkippedRecord(grRaw[i])
    /\ \A i, j \in 1..3 : i # j => NodeIdOf(grRaw[i]) # NodeIdOf(grRaw[j])
    /\ \/ /\ grRaw[1].inputDrvs = {DrvOf(2)}
          /\ grRaw[2].inputDrvs = {DrvOf(3)}
          /\ grRaw[3].inputDrvs = {DrvOf(1)}
       \/ /\ grRaw[1].inputDrvs = {DrvOf(3)}
          /\ grRaw[3].inputDrvs = {DrvOf(2)}
          /\ grRaw[2].inputDrvs = {DrvOf(1)}

\* C32 (scenario S3): for three records forming A -> B -> C -> A the cycle
\* enumeration returns at least one cycle made of exactly A, B and C, and
\* all_dependencies of each of the three contains the other two.
C32_ScenarioS3 ==
    (grPc = "processed" /\ ScenarioS3) =>
        LET ids == {NodeIdOf(grRaw[i]) : i \in 1..3}
        IN  /\ \E k \in 1..Len(circular_dependencies) :
                  Range(circular_dependencies[k]) = ids
            /\ \A a \in ids :
                  ids \ {a} \subseteq Range(dependency_data[a].all_dependencies)

C32_Witness ==
    /\ grPc = "processed"
    /\ ScenarioS3
    /\ Len(circular_dependencies) = 1
    /\ Len(circular_dependencies[1]) = 4
\* ------------------------------------------------------------------------
\* Retry policy of an embedding call
\* ------------------------------------------------------------------------

\* Worker w is inside the retry loop of its call.
InRetryLoop(w) == wpc[w] \in {"inflight", "cooldown", "backoff"}

\* Worker w's attempt has failed and its handler has not yet chosen between
\* raising and the backoff sleep.
FailedAttempt(w) == wpc[w] \in {"inflight", "cooldown"}

\* C33 (retry policy): each embedding call is attempted at most 3 times;
\* after a failed attempt that is not the last the client sleeps
\* 1s * 2^attempt plus a jitter between 0 and a quarter of that delay, and
\* the next attempt is sent only when that sleep is over; after the third
\* failed attempt the call ends with the empty result and no further request
\* is sent for it.
C33_RetryPolicy ==
    /\ [](\A w \in DOMAIN wpc : wattempt[w] \in 0..2)
    /\ [][\A w \in DOMAIN wpc :
             \* a request is sent for w: the first on entering the loop, a
             \* later one only out of a finished backoff sleep
             /\ (wpc'[w] = "inflight" /\ wpc[w] # "inflight") =>
                   /\ Len(sentLog') = Len(sentLog) + 1
                   /\ sentLog'[Len(sentLog')].t = clock
                   /\ sentLog'[Len(sentLog')].attempt = wattempt'[w]
                   /\ IF InRetryLoop(w)
                      THEN /\ wpc[w] = "backoff"
                           /\ clock >= wwake[w]
                           /\ wattempt'[w] = wattempt[w] + 1
                      ELSE wattempt'[w] = 0
             /\ (wpc'[w] = wpc[w] /\ Len(sentLog') > Len(sentLog)) =>
                   \E v \in DOMAIN wpc : wpc'[v] = "inflight" /\ wpc[v] # "inflight"
             \* the backoff sleep after a failed attempt
             /\ (FailedAttempt(w) /\ wpc'[w] = "backoff") =>
                   /\ wattempt[w] < 2
                   /\ wattempt'[w] = wattempt[w]
                   /\ wwake'[w] - clock >= (2 ^ wattempt[w]) * TicksPerSecond
                   /\ 4 * (wwake'[w] - clock) <= 5 * (2 ^ wattempt[w]) * TicksPerSecond
             \* the third attempt ends the call
             /\ (FailedAttempt(w) /\ wattempt[w] = 2 /\ wpc'[w] # wpc[w]) =>
                   \/ wpc[w] = "inflight" /\ wpc'[w] = "cooldown"
                   \/ wpc'[w] = "cancelled"
                   \/ wpc'[w] = "done" /\ results'[w].kind \in {"vec", "empty"}
             /\ InRetryLoop(w) =>
                   wpc'[w] \in {"inflight", "cooldown", "backoff", "done", "cancelled"}
             /\ wpc[w] \in {"done", "cancelled"} => wpc'[w] = wpc[w]]_vars

\* A call whose three attempts failed: three requests, the second at least
\* 1 s after the first and the third at least 2 s after the second, and the
\* empty result.
C33_Witness ==
    /\ Len(texts) = 1
    /\ wpc[1] = "done"
    /\ results[1] = EmptyVec
    /\ Len(sentLog) = 3
    /\ \A k \in 1..3 : sentLog[k].attempt = k - 1
    /\ sentLog[2].t - sentLog[1].t >= TicksPerSecond
    /\ sentLog[3].t - sentLog[2].t >= 2 * TicksPerSecond
\* ------------------------------------------------------------------------
\* Licenses and maintainers: junction tables and their extraction
\* ------------------------------------------------------------------------

\* Maintainers with a name and an email, with only a name (the same name),
\* with only an email and with only a github handle.
MaintainerUniverse ==
    { [name |-> "alice", email |-> "a@x", github |-> ""],
      [name |-> "alice", email |-> "",    github |-> ""],
      [name |-> "",      email |-> "b@x", github |-> ""],
      [name |-> "",      email |-> "",    github |-> "carol"] }

LicenseUniverse ==
    { NoLicense,
      [type |-> "object", names |-> {"MIT"}],
      [type |-> "array",  names |-> {"MIT", "GPL"}] }

\* The records of two packages, one of them on a system as well, each with
\* the platforms of its package, a license and at most one maintainer.
MetaUniverse ==
    { r \in [ attrPath  : {<<"hello">>, <<"hello", "x86_64-linux">>, <<"world">>},
              name      : {<<"hello", "2.12">>},
              drvPath   : {"drv"},
              platforms : PlatformSets,
              broken    : {FALSE},
              unfree    : {FALSE},
              available : {TRUE},
              insecure    : {FALSE},
              unsupported : {FALSE},
              license     : LicenseUniverse,
              maintainers : {M \in SUBSET MaintainerUniverse : Cardinality(M) <= 1} ] :
          (r.attrPath[1] = "world") = (r.platforms = {"aarch64-darwin"}) }

StartMeta ==
    /\ rawRecords \in UNION {[1..n -> MetaUniverse] : n \in 1..MaxRecords}
    /\ sqlPc = "raw"
    /\ packages = <<>>
    /\ packagesTbl = <<>>
    /\ variationsTbl = {}
    /\ architecturesTbl = {}
    /\ pkgArchTbl = {}
    /\ licensesTbl = {}
    /\ pkgLicTbl = {}
    /\ maintainersTbl = {}
    /\ pkgMaintTbl = {}
    /\ packages_fts = {}
    /\ minQueue = <<>>
    /\ packages_kv = <<>>

InitMeta == StartMeta /\ IdleShard /\ IdleStore /\ IdleEmbed /\ IdleGraph /\ IdleIndex /\ IdleRun /\ IdleExtract /\ IdleBedrock /\ IdleWait

\* The run up to the extraction from the written main database.
NextMeta ==
    \/ ProcessRawPackages
    \/ ConvertPackagesToSqlite
    \/ CreateMinifiedDbFromMain

SpecMeta == InitMeta /\ [][NextMeta]_vars

\* The value a maintainer dictionary has for a field, "" without the key.
FieldOf(dict, f) == IF f \in DOMAIN dict THEN dict[f] ELSE ""

\* Dictionary d carries the fields of maintainer row m.
SameMaintainer(d, m) ==
    \A f \in {"name", "email", "github"} : FieldOf(d, f) = m[f]

\* C34: every package extracted from the main database carries exactly the
\* licenses, maintainers and platforms linked to its package_id through the
\* junction tables, maintainers with only a name, only an email or only a
\* github handle included, and none that is linked to another package only.
C34_ExtractionPreservesMetadata ==
    \A k \in 1..Len(minQueue) :
        LET pkg == minQueue[k]
            id == pkg.package_id
            linked == {pm[2] : pm \in {x \in pkgMaintTbl : x[1] = id}}
        IN  /\ id \in DOMAIN packagesTbl
            /\ pkg.license.licenses = {pl[2] : pl \in {x \in pkgLicTbl : x[1] = id}}
            /\ pkg.platforms = {pa[2] : pa \in {x \in pkgArchTbl : x[1] = id}}
            /\ \A m \in linked : \E d \in pkg.maintainers : SameMaintainer(d, m)
            /\ \A d \in pkg.maintainers : \E m \in linked : SameMaintainer(d, m)
            /\ Cardinality(pkg.maintainers) = Cardinality(linked)

\* Two packages are extracted; one of them is linked to a maintainer with
\* only an email and to two licenses, the other to no maintainer and to no
\* license, and their platforms differ.
C34_Witness ==
    /\ sqlPc = "minify"
    /\ Len(minQueue) = 2
    /\ \E i, j \in 1..2 :
          /\ minQueue[i].maintainers = {[email |-> "b@x"]}
          /\ minQueue[i].license.type = "array"
          /\ minQueue[j].maintainers = {}
          /\ minQueue[j].license.type = "none"
          /\ minQueue[i].platforms # minQueue[j].platforms
\* C38: package_maintainers links a package to a maintainer row if and only
\* if that maintainer, with the same name, email and github handle, is in the
\* package's own merged maintainer list; a maintainer that only shares the
\* value of one field with one of the package's maintainers is not linked.
C38_MaintainerLinksExact ==
    sqlPc \notin {"raw", "processed"} =>
        \A id \in DOMAIN packagesTbl :
            \A m \in maintainersTbl :
                <<id, m>> \in pkgMaintTbl <=> m \in packagesTbl[id].maintainers
\* ------------------------------------------------------------------------
\* Which records share a package id
\* ------------------------------------------------------------------------

\* Records of packages whose attribute name holds "linux", of one package
\* on two systems, and without an attribute path.
IdUniverse ==
    [ attrPath  : { <<"pkgs", "util-linux">>, <<"pkgs", "linux-firmware">>,
                    <<"hello", "x86_64-linux">>, <<"hello", "aarch64-darwin">>,
                    <<"hello">>, <<>> },
      name      : {<<"hello", "2.12">>},
      drvPath   : {"drv"},
      platforms : {{"x86_64-linux", "aarch64-linux"}},
      broken    : BOOLEAN,
      unfree    : {FALSE},
      available : {TRUE},
      insecure    : {FALSE},
      unsupported : {FALSE},
      license     : {NoLicense},
      maintainers : {{}} ]

StartIds ==
    /\ rawRecords \in UNION {[1..n -> IdUniverse] : n \in 1..MaxRecords}
    /\ sqlPc = "raw"
    /\ packages = <<>>
    /\ packagesTbl = <<>>
    /\ variationsTbl = {}
    /\ architecturesTbl = {}
    /\ pkgArchTbl = {}
    /\ licensesTbl = {}
    /\ pkgLicTbl = {}
    /\ maintainersTbl = {}
    /\ pkgMaintTbl = {}
    /\ packages_fts = {}
    /\ minQueue = <<>>
    /\ packages_kv = <<>>

InitIds == StartIds /\ IdleShard /\ IdleStore /\ IdleEmbed /\ IdleGraph /\ IdleIndex /\ IdleRun /\ IdleExtract /\ IdleBedrock /\ IdleWait

SpecIds == InitIds /\ [][NextSql]_vars

\* A system double, the architecture segment of an attribute path.
IsSystem(part) == part \in {"x86_64-linux", "aarch64-darwin", "aarch64-linux"}

\* An attribute path without its trailing architecture segment.
WithoutSystem(parts) ==
    IF parts # <<>> /\ IsSystem(parts[Len(parts)])
    THEN SubSeq(parts, 1, Len(parts) - 1) ELSE parts

\* C39: the records that end up in one canonical package (one package_id)
\* have attribute paths that are identical up to a trailing architecture
\* segment; records of different packages are not collapsed into one.
C39_SameIdSamePackage ==
    sqlPc \notin {"raw", "processed"} =>
        \A id \in DOMAIN packagesTbl :
            \A i, j \in VariantsOf(id) :
                WithoutSystem(packages[i].attributePath)
                    = WithoutSystem(packages[j].attributePath)
\* C35: a caller that sleeps waiting for rate-limit capacity does not hold
\* the limiter mutex during that sleep, so no other caller has to wait for
\* the mutex while it sleeps.
C35_SleepWithoutMutex ==
    \A w \in DOMAIN wpc :
        wpc[w] = "lockSleep" =>
            /\ _rate_lock # w
            /\ \A v \in DOMAIN wpc : wpc[v] # "waitLock"

\* ------------------------------------------------------------------------
\* C36: the upload statistics add up
\* ------------------------------------------------------------------------

\* The nodes of the batches the as_completed loop has handled so far.
SeenNodes == LET RECURSIVE Sum(_)
                 Sum(S) == IF S = {} THEN 0
                           ELSE LET b == CHOOSE x \in S : TRUE
                                IN  Len(Batch(Prepared, b)) + Sum(S \ {b})
             IN  Sum(batchSeen)

\* C36: once the node upload has finished, success + errors equals total,
\* the number of prepared nodes, whatever the number of batches and the
\* order in which the batches complete or raise; while the upload runs the
\* two counters cover exactly the nodes of the batches handled so far.
C36_UploadStatsAddUp ==
    storeJob = "nodes" =>
        /\ storePc \in {"index", "done"} =>
              /\ uploadStats.success + uploadStats.errors = uploadStats.total
              /\ uploadStats.total = Len(Prepared)
        /\ storePc = "upload" =>
              /\ uploadStats.success + uploadStats.errors = SeenNodes
              /\ uploadStats.total = Len(Prepared)

\* Two batches: one returns a success and an error, the other raises.
C36_Witness ==
    /\ storeJob = "nodes" /\ storePc = "done"
    /\ Len(Prepared) = 3
    /\ \E b \in DOMAIN batchCount : batchCount[b].raised
    /\ \E b \in DOMAIN batchCount :
          batchCount[b].success = 1 /\ batchCount[b].errors = 1
    /\ uploadStats = [success |-> 1, errors |-> 2, total |-> 3]

\* ------------------------------------------------------------------------
\* C37: termination of an embedding batch
\* ------------------------------------------------------------------------

\* A batch with any limits GEMINI_REQUESTS_PER_MINUTE and
\* GEMINI_TOKENS_PER_MINUTE may give, 1 token per minute included, and a
\* service that answers every request with a 200.
StartTerm ==
    /\ texts \in UNION {[1..n -> TextLens] : n \in 1..MaxTexts}
    /\ max_concurrent_requests \in 1..MaxConcurrent
    /\ requests_per_minute \in 1..MaxRpm
    /\ tokens_per_minute \in 1..MaxTpm
    /\ clock = 0
    /\ batchPc = "called"
    /\ wpc = [w \in Workers |-> "created"]
    /\ wattempt = [w \in Workers |-> 0]
    /\ wnow = [w \in Workers |-> 0]
    /\ wwake = [w \in Workers |-> 0]
    /\ _sem = max_concurrent_requests
    /\ semQ = <<>>
    /\ _rate_lock = 0
    /\ lockQ = <<>>
    /\ _req_times = <<>>
    /\ _tok_times = <<>>
    /\ _throttle_streak = 0
    /\ results = <<>>
    /\ completion = <<>>
    /\ sentLog = <<>>
    /\ reassembled = FALSE
    /\ embeddings = <<>>

InitTerm == StartTerm /\ IdleShard /\ IdleSql /\ IdleStore /\ IdleGraph /\ IdleIndex /\ IdleRun /\ IdleExtract /\ IdleBedrock /\ IdleWait

NextTerm ==
    \/ CallBatch
    \/ \E w \in Workers : WorkerStart(w)
    \/ \E w \in Workers : SemGranted(w)
    \/ \E w \in Workers : LockGranted(w)
    \/ \E w \in Workers : LimiterWake(w)
    \/ \E w \in Workers : RespondOk(w)
    \/ \E w \in Workers : RespondInvalid(w)
    \/ GatherDone
    \/ ReturnResults
    \/ Tick

\* The event loop runs a task that can run, and time passes otherwise.
SpecTerm == InitTerm /\ [][NextTerm]_vars /\ WF_vars(NextTerm)

\* Every text of the batch alone fits the tokens-per-minute limit.
EveryTextFits ==
    \A w \in Workers : _estimate_tokens(texts[w]) <= tokens_per_minute

FittingBatchTerminates ==
    EveryTextFits => <>(/\ batchPc = "returned"
                        /\ \A w \in Workers : results[w].kind \in {"vec", "empty"})

\* A worker asleep in the limiter with both windows empty: nothing will
\* expire, and its own text is what exceeds the limit.
StarvedInLimiter ==
    \E w \in Workers :
        /\ wpc[w] = "lockSleep"
        /\ _req_times = <<>> /\ _tok_times = <<>>
        /\ clock >= Window

\* Once a worker sleeps with both windows empty it sleeps for ever.
StarvedStaysStarved == [][StarvedInLimiter => StarvedInLimiter']_vars

\* ------------------------------------------------------------------------
\* C40: what index.json.br lists
\* ------------------------------------------------------------------------

\* create_index_file: the "packages" list of the index has one entry per
\* package handed in, with nodeId "<packageName>-<version>"; main hands in
\* the list it handed to write_nodes.
IndexNodeIds == {nodeInput[i].node : i \in DOMAIN nodeInput}

\* The index object of this run is in the store.
IndexWritten == storeJob = "nodes" /\ storePc = "done" /\ store["index"] = "new"

\* C40: every nodeId listed in index.json.br has a node object under the
\* prefix that this run wrote; the index lists no package that was skipped
\* during preparation and none whose upload failed.
C40_IndexListsWrittenNodes ==
    IndexWritten =>
        \A id \in IndexNodeIds : id \in NodeIds /\ store[id] = "new"

\* The index lists a package that _prepare_node_data skipped.
IndexListsSkipped ==
    IndexWritten /\ "" \in IndexNodeIds

\* The index lists a node no put of this run wrote, and no object of that
\* name is in the store at all.
IndexListsMissing ==
    IndexWritten /\ \E id \in IndexNodeIds \cap NodeIds : store[id] = "none"

=============================================================================
